---- MODULE Spec2Model ----
(***************************************************************************)
(* ITBI data-integration pipelines (ELT: extract / load_raw / transform_db *)
(* and ETL: extract / transform).                                          *)
(*                                                                         *)
(* Modelling conventions                                                   *)
(*  - A text is a sequence of one-character strings, so REPLACE, TRIM and  *)
(*    the numeric parsers work on characters as the code does.             *)
(*  - A REAL / float is an integer number of hundredths (Scale = 100); the *)
(*    texts drawn as inputs carry at most two decimals.                    *)
(*  - A cell is a record [k, v, s]: k = "null" is SQL NULL / pandas NaN,   *)
(*    "text" carries s, "real" carries v in hundredths, "int" and "bool"   *)
(*    carry v, "date" carries v = yyyymmdd, "inf" is a float infinity of sign v, *)
(*    "label" carries one of the fixed texts the code writes.              *)
(*  - A table is the sequence of its rows in id order; the AUTOINCREMENT   *)
(*    id and the timestamps are not kept, and transformation_log (written, *)
(*    never read) is not kept either.                                      *)
(***************************************************************************)
EXTENDS Integers, Sequences, FiniteSets, TLC

\* ---------------------------------------------------------------- bounds
MaxRows == 2
MaxLoads == 2

Scale == 100

\* ----------------------------------------------------------------- cells
Null == [k |-> "null", v |-> 0, s |-> <<>>]
Txt(s) == [k |-> "text", v |-> 0, s |-> s]
RealC(n) == [k |-> "real", v |-> n, s |-> <<>>]
IntC(n) == [k |-> "int", v |-> n, s |-> <<>>]
BoolC(b) == [k |-> "bool", v |-> IF b THEN 1 ELSE 0, s |-> <<>>]
DateC(n) == [k |-> "date", v |-> n, s |-> <<>>]
InfC(neg) == [k |-> "inf", v |-> IF neg THEN -1 ELSE 1, s |-> <<>>]

IsNull(c) == c.k = "null"

\* ------------------------------------------------------------ characters
DigitChars == <<"0", "1", "2", "3", "4", "5", "6", "7", "8", "9">>

IsDigit(c) == \E i \in 1..10 : DigitChars[i] = c

DigitVal(c) == (CHOOSE i \in 1..10 : DigitChars[i] = c) - 1

DigitChar(d) == DigitChars[d + 1]

\* str.replace / SQL REPLACE of one character c by the text r
RECURSIVE Replace(_, _, _)
Replace(s, c, r) ==
    IF s = <<>> THEN <<>>
    ELSE (IF Head(s) = c THEN r ELSE <<Head(s)>>) \o Replace(Tail(s), c, r)

RECURSIVE LTrim(_)
LTrim(s) == IF s # <<>> /\ Head(s) = " " THEN LTrim(Tail(s)) ELSE s

RECURSIVE RTrim(_)
RTrim(s) ==
    IF s # <<>> /\ s[Len(s)] = " " THEN RTrim(SubSeq(s, 1, Len(s) - 1)) ELSE s

\* SQL TRIM(x): spaces removed at both ends, NULL stays NULL
Trim(c) == IF IsNull(c) THEN Null ELSE Txt(RTrim(LTrim(c.s)))

\* the leading digits of s, and what follows them
RECURSIVE DigitPrefix(_)
DigitPrefix(s) ==
    IF s # <<>> /\ IsDigit(Head(s)) THEN <<Head(s)>> \o DigitPrefix(Tail(s))
    ELSE <<>>

RECURSIVE DigitsValue(_, _)
DigitsValue(s, acc) ==
    IF s = <<>> THEN acc ELSE DigitsValue(Tail(s), acc * 10 + DigitVal(Head(s)))

AllDigits(s) == \A i \in 1..Len(s) : IsDigit(s[i])

\* decimal digits of a natural number
RECURSIVE NatText(_)
NatText(n) ==
    IF n < 10 THEN <<DigitChar(n)>>
    ELSE NatText(n \div 10) \o <<DigitChar(n % 10)>>

\* str(x) of an int64 cell as pandas astype(str) writes it
IntText(n) == IF n < 0 THEN <<"-">> \o NatText(0 - n) ELSE NatText(n)

\* fraction digits f (at most two are kept) as hundredths
FracValue(f) ==
    IF Len(f) = 0 THEN 0
    ELSE IF Len(f) = 1 THEN DigitVal(f[1]) * 10
    ELSE DigitVal(f[1]) * 10 + DigitVal(f[2])

\* ------------------------------------------------------ numeric parsers
\* sign, integer digits and fraction digits of the longest numeric prefix
\* of s (leading spaces skipped), as SQLite's text-to-number conversion
\* reads it; a text with no numeric prefix reads as zero
NumericPrefix(s) ==
    LET t == LTrim(s)
        neg == t # <<>> /\ Head(t) = "-"
        u == IF t # <<>> /\ Head(t) \in {"-", "+"} THEN Tail(t) ELSE t
        ip == DigitPrefix(u)
        r == SubSeq(u, Len(ip) + 1, Len(u))
        fp == IF r # <<>> /\ Head(r) = "." THEN DigitPrefix(Tail(r)) ELSE <<>>
        rest == IF r # <<>> /\ Head(r) = "."
                THEN SubSeq(r, Len(fp) + 2, Len(r)) ELSE r
    IN [neg |-> neg, ip |-> ip, fp |-> fp, rest |-> rest]

PrefixValue(p) ==
    LET m == DigitsValue(p.ip, 0) * Scale + FracValue(p.fp)
    IN IF p.neg THEN 0 - m ELSE m

\* CAST(x AS REAL)
CastReal(c) ==
    IF IsNull(c) THEN Null ELSE RealC(PrefixValue(NumericPrefix(c.s)))

\* CAST(x AS INTEGER): the integer prefix only
CastInteger(c) ==
    IF IsNull(c) THEN Null
    ELSE LET p == NumericPrefix(c.s)
             m == DigitsValue(p.ip, 0)
         IN IntC(IF p.neg THEN 0 - m ELSE m)

\* Python float(str): the whole text must be a number ("nan" reads as NaN);
\* ok = FALSE stands for the ValueError
PyFloat(s) ==
    LET t == RTrim(LTrim(s))
        p == NumericPrefix(t)
    IN IF t = <<"n", "a", "n">> THEN [ok |-> TRUE, cell |-> Null]
       ELSE IF p.rest = <<>> /\ (p.ip # <<>> \/ p.fp # <<>>)
            THEN [ok |-> TRUE, cell |-> RealC(PrefixValue(p))]
            ELSE [ok |-> FALSE, cell |-> Null]

\* ---------------------------------------------------------------- dates
\* a text "YYYY-MM-DD" with a month 01..12 and a day 01..31
IsIsoDate(s) ==
    /\ Len(s) = 10
    /\ s[5] = "-" /\ s[8] = "-"
    /\ \A i \in {1, 2, 3, 4, 6, 7, 9, 10} : IsDigit(s[i])
    /\ DigitsValue(SubSeq(s, 6, 7), 0) \in 1..12
    /\ DigitsValue(SubSeq(s, 9, 10), 0) \in 1..31

IsoValue(s) ==
    DigitsValue(SubSeq(s, 1, 4), 0) * 10000
        + DigitsValue(SubSeq(s, 6, 7), 0) * 100
        + DigitsValue(SubSeq(s, 9, 10), 0)

DateYear(d) == d.v \div 10000
DateMonth(d) == (d.v \div 100) % 100

\* SQL DATE(x): NULL for NULL and for a text that is no date
SqlDate(c) ==
    IF IsNull(c) \/ ~IsIsoDate(c.s) THEN Null ELSE DateC(IsoValue(c.s))

\* CAST(strftime('%Y', x) AS INTEGER) and CAST(strftime('%m', x) AS INTEGER)
SqlYear(c) == IF IsNull(SqlDate(c)) THEN Null ELSE IntC(DateYear(SqlDate(c)))
SqlMonth(c) == IF IsNull(SqlDate(c)) THEN Null ELSE IntC(DateMonth(SqlDate(c)))

\* x BETWEEN lo AND hi is NULL, hence not taken, for a NULL x
SqlBetween(c, lo, hi) == ~IsNull(c) /\ lo <= c.v /\ c.v <= hi

\* the CASE ... END as trimestre of the INSERT ... SELECT
SqlTrimestre(c) ==
    LET m == SqlMonth(c)
    IN IF SqlBetween(m, 1, 3) THEN IntC(1)
       ELSE IF SqlBetween(m, 4, 6) THEN IntC(2)
       ELSE IF SqlBetween(m, 7, 9) THEN IntC(3)
       ELSE IntC(4)

\* pd.to_datetime of one element: NaN, "" and "nan" give NaT, an ISO date
\* parses, anything else raises (ok = FALSE)
PyToDatetime(c) ==
    IF IsNull(c) THEN [ok |-> TRUE, cell |-> Null]
    ELSE IF c.k = "date" THEN [ok |-> TRUE, cell |-> c]
    ELSE IF c.k # "text" THEN [ok |-> FALSE, cell |-> Null]
    ELSE IF c.s = <<>> \/ c.s = <<"n", "a", "n">> THEN [ok |-> TRUE, cell |-> Null]
    ELSE IF IsIsoDate(c.s) THEN [ok |-> TRUE, cell |-> DateC(IsoValue(c.s))]
    ELSE [ok |-> FALSE, cell |-> Null]

\* ------------------------------------------------------- frames and rows
\* A row is a function from column names to cells; a frame (DataFrame) is
\* its column set and its rows, each row defined on exactly those columns.
Y2023 == <<"2", "0", "2", "3">>
Y2024 == <<"2", "0", "2", "4">>
Years == {Y2023, Y2024}

NAN == <<"n", "a", "n">>

\* columns of itbi_raw (tipo_imovel, logradouro, numero and cep are text
\* columns handled exactly like bairro and are not carried)
RawKeyColumns == {"valor_avaliacao", "bairro", "data_transacao", "source_year"}

RawColumns ==
    RawKeyColumns \cup
    {"complemento", "area_terreno", "area_construida", "ano_construcao",
     "fracao_ideal", "valores_financiados_sfh"}

\* the columns of itbi_raw that are not carried (load_timestamp and id are
\* filled by the table itself)
ColumnsNotCarried ==
    {"tipo_imovel", "logradouro", "numero", "cep", "extraction_timestamp",
     "pipeline_type"}

TableColumns == RawColumns \cup ColumnsNotCarried

\* columns load_raw_dataset leaves as they are instead of casting to str
LoadMetaColumns == {"source_year", "extraction_timestamp", "pipeline_type"}

\* repr of a float: at least one decimal, no trailing zero
FloatText(v) ==
    LET a == IF v < 0 THEN 0 - v ELSE v
        f == a % Scale
    IN (IF v < 0 THEN <<"-">> ELSE <<>>) \o NatText(a \div Scale) \o <<".">>
       \o (IF f % 10 = 0 THEN <<DigitChar(f \div 10)>>
           ELSE <<DigitChar(f \div 10), DigitChar(f % 10)>>)

\* Series.astype(str) of one element: NaN becomes the text "nan"
StrOf(c) ==
    IF c.k = "text" THEN c.s
    ELSE IF c.k = "int" THEN IntText(c.v)
    ELSE IF c.k = "real" THEN FloatText(c.v)
    ELSE NAN

RowsOfYear(table, year) ==
    SelectSeq(table, LAMBDA r : r["source_year"] = Txt(year))

RowsNotOfYear(table, year) ==
    SelectSeq(table, LAMBDA r : r["source_year"] # Txt(year))

\* ------------------------------------------------------------ variables
VARIABLES
    itbi_raw,              \* table itbi_raw
    itbi_transformed,      \* table itbi_transformed
    load_metadata,         \* table load_metadata
    datasets,              \* extracted frames by year (the extractor's dict)
    transformed_datasets,  \* frames returned by transform_dataset, by year
    result,                \* the last call: what ran, for which year, outcome
    itbi_metrics,          \* table itbi_metrics
    run                    \* the run of an entry script (run_etl / run_elt main)

vars ==
    <<itbi_raw, itbi_transformed, load_metadata, datasets,
      transformed_datasets, result, itbi_metrics, run>>

NoFrame == [cols |-> {}, rows |-> <<>>]

NoResult == [op |-> "none", year |-> <<>>, ok |-> TRUE, value |-> 0]

\* no entry script is running
NoRun ==
    [pipeline |-> "none", pc |-> "idle", attempted |-> 0, i |-> 0,
     fetched |-> <<>>,
     datasets_raw |-> <<>>, datasets_clean |-> <<>>, consolidated |-> NoFrame,
     load_results |-> <<>>, available_years |-> <<>>,
     transformation_results |-> <<>>, step |-> "none", exit |-> "running"]

\* ------------------------------------------------------ load_raw_dataset
\* df_to_load: every column but the load metadata ones cast to str
DfToLoad(df) ==
    [i \in 1..Len(df.rows) |->
        [c \in df.cols |->
            IF c \in LoadMetaColumns THEN df.rows[i][c]
            ELSE Txt(StrOf(df.rows[i][c]))]]

\* the rows to_sql(if_exists='append') inserts: a table column the frame
\* lacks is left NULL
RawInsertRows(df) ==
    [i \in 1..Len(df.rows) |->
        [c \in RawColumns |->
            IF c \in df.cols THEN DfToLoad(df)[i][c] ELSE Null]]

\* CONSTRAINT unique_record UNIQUE (...): two rows collide when the four
\* key cells are equal and none of them is NULL
UniqueCollision(r1, r2) ==
    \A c \in RawKeyColumns : ~IsNull(r1[c]) /\ r1[c] = r2[c]

ViolatesUnique(table) ==
    \E i, j \in 1..Len(table) : i < j /\ UniqueCollision(table[i], table[j])

\* why the INSERT of to_sql fails, or "" when it goes through
InsertError(df, table) ==
    IF ~(df.cols \subseteq TableColumns) THEN "table itbi_raw has no column"
    ELSE IF ViolatesUnique(table \o RawInsertRows(df))
         THEN "UNIQUE constraint failed"
    ELSE ""

MetadataRowAlwaysSuccess(year, n, status, msg) ==
    [source_year |-> year, records_loaded |-> n, status |-> "success",
     error_message |-> ""]

MetadataRow(year, n, status, msg) ==
    [source_year |-> year, records_loaded |-> n, status |-> status,
     error_message |-> msg]

\* the old rows of the year are deleted and the frame appended; when the
\* INSERT fails, to_sql rolls the connection's open transaction back (the
\* DELETE with it), the error row is written and the exception re-raised
RawAfterDeleteNoDelete(year) == itbi_raw

\* DELETE FROM itbi_raw WHERE source_year = ?
RawAfterDelete(year) == RowsNotOfYear(itbi_raw, year)

RawAfterRollbackKeepsDelete(year) == RowsNotOfYear(itbi_raw, year)

\* the rollback of to_sql's failed transaction takes the DELETE back
RawAfterRollback(year) == itbi_raw

load_raw_dataset(df, year) ==
    LET kept == RawAfterDelete(year)
        err == InsertError(df, kept)
    IN /\ IF err = ""
          THEN /\ itbi_raw' = kept \o RawInsertRows(df)
               /\ load_metadata' =
                      Append(load_metadata,
                             MetadataRow(year, Len(df.rows), "success", ""))
               /\ result' = [op |-> "load_raw_dataset", year |-> year,
                             ok |-> TRUE, value |-> Len(df.rows)]
          ELSE /\ itbi_raw' = RawAfterRollback(year)
               /\ load_metadata' =
                      Append(load_metadata, MetadataRow(year, 0, "error", err))
               /\ result' = [op |-> "load_raw_dataset", year |-> year,
                             ok |-> FALSE, value |-> 0]
       /\ UNCHANGED <<itbi_transformed, itbi_metrics, datasets, transformed_datasets>>

\* -------------------------------------------- transform_data_types_in_db
SqlBrazilianRealKeepDots(c) ==
    IF IsNull(c) THEN Null
    ELSE CastReal(Txt(Replace(c.s, ",", <<".">>)))

\* CAST(REPLACE(REPLACE(x, '.', ''), ',', '.') AS REAL)
SqlBrazilianReal(c) ==
    IF IsNull(c) THEN Null
    ELSE CastReal(Txt(Replace(Replace(c.s, ".", <<>>), ",", <<".">>)))

\* COALESCE(NULLIF(TRIM(x), ''), NULLIF(TRIM(x), 'nan'), 'Sem complemento')
SemComplemento == [k |-> "label", v |-> 0, s |-> <<"Sem complemento">>]

SqlNullIf(c, s) == IF ~IsNull(c) /\ c.s = s THEN Null ELSE c

SqlComplemento(c) ==
    IF ~IsNull(SqlNullIf(Trim(c), <<>>)) THEN SqlNullIf(Trim(c), <<>>)
    ELSE IF ~IsNull(SqlNullIf(Trim(c), NAN)) THEN SqlNullIf(Trim(c), NAN)
    ELSE SemComplemento

HasValorNoNanTest(r) ==
    /\ ~IsNull(r["valor_avaliacao"])
    /\ r["valor_avaliacao"].s # <<>>

\* the WHERE clause of the INSERT ... SELECT, apart from the year
HasValor(r) ==
    /\ ~IsNull(r["valor_avaliacao"])
    /\ r["valor_avaliacao"].s # <<>>
    /\ r["valor_avaliacao"].s # NAN

\* one selected raw row as the SELECT list types it; the derived columns
\* are not in the INSERT list and start NULL
TransformRow(r) ==
    [valor_avaliacao |-> SqlBrazilianReal(r["valor_avaliacao"]),
     valor_por_m2 |-> Null,
     bairro |-> Trim(r["bairro"]),
     data_transacao |-> SqlDate(r["data_transacao"]),
     ano_transacao |-> SqlYear(r["data_transacao"]),
     mes_transacao |-> SqlMonth(r["data_transacao"]),
     trimestre |-> SqlTrimestre(r["data_transacao"]),
     complemento |-> SqlComplemento(r["complemento"]),
     area_terreno |-> SqlBrazilianReal(r["area_terreno"]),
     area_construida |-> SqlBrazilianReal(r["area_construida"]),
     ano_construcao |-> CastInteger(r["ano_construcao"]),
     idade_imovel |-> Null,
     fracao_ideal |-> SqlBrazilianReal(r["fracao_ideal"]),
     valores_financiados_sfh |-> SqlBrazilianReal(r["valores_financiados_sfh"]),
     tem_financiamento |-> Null,
     faixa_valor |-> Null,
     categoria_area |-> Null,
     periodo_construcao |-> Null,
     source_year |-> r["source_year"]]

MapRows(F(_), rows) == [i \in 1..Len(rows) |-> F(rows[i])]

SelectedRawRows(year) == SelectSeq(RowsOfYear(itbi_raw, year), HasValor)

TransformedAfterDeleteNoDelete(year) == itbi_transformed

\* DELETE FROM itbi_transformed WHERE source_year = ?
TransformedAfterDelete(year) == RowsNotOfYear(itbi_transformed, year)

\* DELETE of the year's transformed rows, then the INSERT ... SELECT
transform_data_types_in_db(year) ==
    LET inserted == MapRows(TransformRow, SelectedRawRows(year))
    IN /\ itbi_transformed' = TransformedAfterDelete(year) \o inserted
       /\ result' = [op |-> "transform_data_types_in_db", year |-> year,
                     ok |-> TRUE, value |-> Len(inserted)]
       /\ UNCHANGED <<itbi_raw, load_metadata, itbi_metrics, datasets,
                    transformed_datasets>>

\* ------------------------------------------ create_derived_metrics_in_db
Label(l) == [k |-> "label", v |-> 0, s |-> <<l>>]

Baixo == Label("Baixo (ate R$ 200k)")
Medio == Label("Medio (R$ 200k-500k)")
Alto == Label("Alto (R$ 500k-1M)")
Premium == Label("Premium (acima R$ 1M)")
NaoInformado == Label("Nao informado")

\* ROUND(num / den, 2) for den > 0, halves away from zero
SqlRoundedQuotient(num, den) ==
    LET a == IF num < 0 THEN 0 - num ELSE num
        r == (Scale * (a % den)) % den
        q == Scale * (a \div den) + (Scale * (a % den)) \div den
        h == IF 2 * r >= den THEN q + 1 ELSE q
    IN IF num < 0 THEN 0 - h ELSE h

\* a comparison with NULL is NULL and does not select
SqlGt(c, n) == ~IsNull(c) /\ c.v > n
SqlLe(c, n) == ~IsNull(c) /\ c.v <= n
SqlLt(c, n) == ~IsNull(c) /\ c.v < n

SqlValorPorM2(t) ==
    IF SqlGt(t.area_construida, 0)
    THEN IF IsNull(t.valor_avaliacao) THEN Null
         ELSE RealC(SqlRoundedQuotient(t.valor_avaliacao.v, t.area_construida.v))
    ELSE t.valor_por_m2

SqlIdadeImovelReversed(t) ==
    IF ~IsNull(t.ano_construcao)
    THEN IF IsNull(t.ano_transacao) THEN Null
         ELSE IntC(t.ano_construcao.v - t.ano_transacao.v)
    ELSE t.idade_imovel

SqlIdadeImovel(t) ==
    IF ~IsNull(t.ano_construcao)
    THEN IF IsNull(t.ano_transacao) THEN Null
         ELSE IntC(t.ano_transacao.v - t.ano_construcao.v)
    ELSE t.idade_imovel

SqlTemFinanciamento(t) == BoolC(SqlGt(t.valores_financiados_sfh, 0))

SqlFaixaValor(t) ==
    IF SqlLe(t.valor_avaliacao, 200000 * Scale) THEN Baixo
    ELSE IF SqlLe(t.valor_avaliacao, 500000 * Scale) THEN Medio
    ELSE IF SqlLe(t.valor_avaliacao, 1000000 * Scale) THEN Alto
    ELSE Premium

SqlCategoriaArea(t) ==
    IF IsNull(t.area_construida) THEN t.categoria_area
    ELSE IF SqlLe(t.area_construida, 50 * Scale) THEN Label("Pequeno (ate 50m2)")
    ELSE IF SqlLe(t.area_construida, 100 * Scale) THEN Label("Medio (50-100m2)")
    ELSE IF SqlLe(t.area_construida, 200 * Scale) THEN Label("Grande (100-200m2)")
    ELSE Label("Extra Grande (acima 200m2)")

SqlPeriodoConstrucao(t) ==
    IF IsNull(t.ano_construcao) THEN t.periodo_construcao
    ELSE IF SqlLt(t.ano_construcao, 1980) THEN Label("Antes de 1980")
    ELSE IF SqlBetween(t.ano_construcao, 1980, 1999) THEN Label("1980-1999")
    ELSE IF SqlBetween(t.ano_construcao, 2000, 2009) THEN Label("2000-2009")
    ELSE IF SqlBetween(t.ano_construcao, 2010, 2019) THEN Label("2010-2019")
    ELSE Label("2020 ou posterior")

\* the six UPDATE statements applied to one row of the year
DeriveRow(t) ==
    [t EXCEPT !.valor_por_m2 = SqlValorPorM2(t),
              !.idade_imovel = SqlIdadeImovel(t),
              !.tem_financiamento = SqlTemFinanciamento(t),
              !.faixa_valor = SqlFaixaValor(t),
              !.categoria_area = SqlCategoriaArea(t),
              !.periodo_construcao = SqlPeriodoConstrucao(t)]

create_derived_metrics_in_db(year) ==
    /\ itbi_transformed' =
           [i \in 1..Len(itbi_transformed) |->
               IF itbi_transformed[i].source_year = Txt(year)
               THEN DeriveRow(itbi_transformed[i])
               ELSE itbi_transformed[i]]
    /\ result' = [op |-> "create_derived_metrics_in_db", year |-> year,
                  ok |-> TRUE,
                  value |-> Len(RowsOfYear(itbi_transformed, year))]
    /\ UNCHANGED <<itbi_raw, load_metadata, itbi_metrics, datasets,
                    transformed_datasets>>

\* ------------------------------------------- calculate_aggregated_metrics
\* A metric value is the exact quotient num / den: value metrics are in
\* hundredths, count metrics in units. 'tipos_imoveis_unicos' counts a
\* column that is not carried and is left out.
Val(num, den) == [num |-> num, den |-> den]

\* float(result) if result is not None else 0.0
Zero == Val(0, 1)

RECURSIVE SumSeq(_)
SumSeq(s) == IF s = <<>> THEN 0 ELSE Head(s) + SumSeq(Tail(s))

RECURSIVE InsertSorted(_, _)
InsertSorted(x, s) ==
    IF s = <<>> \/ x <= Head(s) THEN <<x>> \o s
    ELSE <<Head(s)>> \o InsertSorted(x, Tail(s))

RECURSIVE OrderBy(_)
OrderBy(s) == IF s = <<>> THEN <<>> ELSE InsertSorted(Head(s), OrderBy(Tail(s)))

\* the non-NULL values of a column among the transformed rows of the year
YearValues(year, col) ==
    LET rows == SelectSeq(RowsOfYear(itbi_transformed, year),
                          LAMBDA t : ~IsNull(t[col]))
    IN [i \in 1..Len(rows) |-> rows[i][col].v]

\* AVG: NULL (stored as 0.0) over no value
SqlAvg(values) ==
    IF values = <<>> THEN Zero ELSE Val(SumSeq(values), Len(values))

SqlMax(values) ==
    IF values = <<>> THEN Zero
    ELSE Val(OrderBy(values)[Len(values)], 1)

SqlMin(values) == IF values = <<>> THEN Zero ELSE Val(OrderBy(values)[1], 1)

SqlMedianAsMean(values) == SqlAvg(values)

\* AVG over ORDER BY valor LIMIT 2 - n % 2 OFFSET (n - 1) / 2
SqlMedian(values) ==
    LET n == Len(values)
        offset == IF n = 0 THEN 0 ELSE (n - 1) \div 2
        limit == 2 - (n % 2)
        last == IF offset + limit < n THEN offset + limit ELSE n
    IN SqlAvg(SubSeq(OrderBy(values), offset + 1, last))

SqlPercent(values) ==
    IF values = <<>> THEN Zero ELSE Val(100 * SumSeq(values), Len(values))

UpperChars ==
    <<"A", "B", "C", "D", "E", "F", "G", "H", "I", "J", "K", "L", "M",
      "N", "O", "P", "Q", "R", "S", "T", "U", "V", "W", "X", "Y", "Z">>

LowerChars ==
    <<"a", "b", "c", "d", "e", "f", "g", "h", "i", "j", "k", "l", "m",
      "n", "o", "p", "q", "r", "s", "t", "u", "v", "w", "x", "y", "z">>

\* str.lower() then replace(' ', '_'), one character
LowerUnderscore(c) ==
    IF c = " " THEN "_"
    ELSE IF \E i \in 1..26 : UpperChars[i] = c
         THEN LowerChars[CHOOSE i \in 1..26 : UpperChars[i] = c]
    ELSE c

MetricName(prefix, bairro) ==
    <<prefix>> \o [i \in 1..Len(bairro.s) |-> LowerUnderscore(bairro.s[i])]

Metric(name, value, group, year) ==
    [metric_name |-> name, metric_value |-> value, metric_group |-> group,
     source_year |-> Txt(year)]

GeneralMetrics(year) ==
    LET valores == YearValues(year, "valor_avaliacao")
    IN << Metric(<<"total_transacoes">>,
                 Val(Len(RowsOfYear(itbi_transformed, year)), 1), "general", year),
          Metric(<<"valor_medio">>, SqlAvg(valores), "general", year),
          Metric(<<"valor_mediano">>, SqlMedian(valores), "general", year),
          Metric(<<"valor_maximo">>, SqlMax(valores), "general", year),
          Metric(<<"valor_minimo">>, SqlMin(valores), "general", year),
          Metric(<<"area_media">>, SqlAvg(YearValues(year, "area_construida")),
                 "general", year),
          Metric(<<"valor_m2_medio">>, SqlAvg(YearValues(year, "valor_por_m2")),
                 "general", year),
          Metric(<<"percentual_financiamento">>,
                 SqlPercent(YearValues(year, "tem_financiamento")), "general", year),
          Metric(<<"bairros_unicos">>,
                 Val(Cardinality({t.bairro : t \in
                        {RowsOfYear(itbi_transformed, year)[i] :
                            i \in 1..Len(RowsOfYear(itbi_transformed, year))}}
                        \ {Null}), 1),
                 "general", year) >>

\* GROUP BY bairro: the groups of the year, NULL being a group of its own
BairroGroups(year) ==
    {RowsOfYear(itbi_transformed, year)[i].bairro :
        i \in 1..Len(RowsOfYear(itbi_transformed, year))}

BairroRows(year, b) ==
    SelectSeq(RowsOfYear(itbi_transformed, year), LAMBDA t : t.bairro = b)

\* ORDER BY count DESC LIMIT 5: any order of the groups that does not put
\* a smaller group before a larger one, cut at five
TopBairros(year) ==
    LET groups == BairroGroups(year)
        n == Cardinality(groups)
        k == IF n < 5 THEN n ELSE 5
    IN {SubSeq(order, 1, k) : order \in
           {o \in [1..n -> groups] :
               /\ \A i, j \in 1..n : i # j => o[i] # o[j]
               /\ \A i, j \in 1..n : i < j =>
                      Len(BairroRows(year, o[i])) >= Len(BairroRows(year, o[j]))}}

RECURSIVE BairroMetrics(_, _)
BairroMetrics(year, top) ==
    IF top = <<>> THEN <<>>
    ELSE LET b == Head(top)
             rows == BairroRows(year, b)
         IN << Metric(MetricName("transacoes_", b), Val(Len(rows), 1),
                      "bairros", year),
               Metric(MetricName("valor_medio_", b),
                      SqlAvg([i \in 1..Len(rows) |-> rows[i].valor_avaliacao.v]),
                      "bairros", year) >>
            \o BairroMetrics(year, Tail(top))

MetricsAfterDeleteAllYears(year) == <<>>

\* DELETE FROM itbi_metrics WHERE source_year = ?
MetricsAfterDelete(year) ==
    SelectSeq(itbi_metrics, LAMBDA m : m.source_year # Txt(year))

\* the DELETE and the INSERT are committed together at the end; a NULL
\* bairro among the top groups raises (None has no lower()) before the
\* commit, and closing the connection drops the DELETE
calculate_aggregated_metrics(year) ==
    /\ \E top \in TopBairros(year) :
          IF \E i \in 1..Len(top) : IsNull(top[i])
          THEN /\ itbi_metrics' = itbi_metrics
               /\ result' = [op |-> "calculate_aggregated_metrics",
                             year |-> year, ok |-> FALSE, value |-> 0]
          ELSE /\ itbi_metrics' =
                      MetricsAfterDelete(year) \o GeneralMetrics(year)
                          \o BairroMetrics(year, top)
               /\ result' = [op |-> "calculate_aggregated_metrics",
                             year |-> year, ok |-> TRUE,
                             value |-> Len(GeneralMetrics(year))
                                         + 2 * Len(top)]
    /\ UNCHANGED <<itbi_raw, itbi_transformed, load_metadata, datasets,
                   transformed_datasets>>

\* ------------------------------------------------ in-process transform
\* fix_encoding: text.encode('latin1').decode('utf-8'); an ASCII character
\* maps to itself, the pair U+00C3 U+00A1 decodes to U+00E1, and a text
\* that does not decode is returned unchanged
NonAscii == {"U+00C3", "U+00A1", "U+00E1", "U+20AC"}

RECURSIVE Latin1AsUtf8(_)
Latin1AsUtf8(s) ==
    IF s = <<>> THEN [ok |-> TRUE, s |-> <<>>]
    ELSE IF Head(s) \notin NonAscii
         THEN LET r == Latin1AsUtf8(Tail(s))
              IN [ok |-> r.ok, s |-> <<Head(s)>> \o r.s]
    ELSE IF Head(s) = "U+00C3" /\ Len(s) >= 2 /\ s[2] = "U+00A1"
         THEN LET r == Latin1AsUtf8(SubSeq(s, 3, Len(s)))
              IN [ok |-> r.ok, s |-> <<"U+00E1">> \o r.s]
    ELSE [ok |-> FALSE, s |-> <<>>]

fix_encoding(c) ==
    IF c.k # "text" THEN c
    ELSE IF Latin1AsUtf8(c.s).ok THEN Txt(Latin1AsUtf8(c.s).s) ELSE c

convert_currency_format(c) ==
    IF IsNull(c) THEN c ELSE Txt(Replace(StrOf(c), ",", <<".">>))

Column(df, col) == [i \in 1..Len(df.rows) |-> df.rows[i][col]]

\* the frame with column col holding cells (added when it is new)
WithColumn(df, col, cells) ==
    [cols |-> df.cols \cup {col},
     rows |-> [i \in 1..Len(df.rows) |->
                 [c \in df.cols \cup {col} |->
                     IF c = col THEN cells[i] ELSE df.rows[i][c]]]]

\* clean_column_names: 'sfh' renamed, then ['cidade', 'uf'] dropped when
\* 'cidade' is a column; drop raises KeyError when 'uf' is not a column
CleanedCols(df) ==
    ((df.cols \ {"sfh"}) \cup
        (IF "sfh" \in df.cols THEN {"valores_financiados_sfh"} ELSE {}))
    \ (IF "cidade" \in df.cols THEN {"cidade", "uf"} ELSE {})

clean_column_names(df) ==
    IF "cidade" \in df.cols /\ "uf" \notin df.cols
    THEN [ok |-> FALSE, df |-> df]
    ELSE [ok |-> TRUE,
          df |-> [cols |-> CleanedCols(df),
                  rows |-> [i \in 1..Len(df.rows) |->
                      [c \in CleanedCols(df) |->
                          IF c = "valores_financiados_sfh" /\ "sfh" \in df.cols
                          THEN df.rows[i]["sfh"]
                          ELSE df.rows[i][c]]]]]

handle_missing_values(df) ==
    IF "complemento" \in df.cols
    THEN WithColumn(df, "complemento",
             [i \in 1..Len(df.rows) |->
                 IF IsNull(df.rows[i]["complemento"]) THEN SemComplemento
                 ELSE df.rows[i]["complemento"]])
    ELSE df

NumericColumns ==
    {"valor_avaliacao", "area_terreno", "area_construida",
     "valores_financiados_sfh", "fracao_ideal"}

fix_text_encoding(df) ==
    [cols |-> df.cols,
     rows |-> [i \in 1..Len(df.rows) |->
                 [c \in df.cols |->
                     IF c \in NumericColumns THEN df.rows[i][c]
                     ELSE fix_encoding(df.rows[i][c])]]]

\* astype(float) of one element after convert_currency_format
AsFloat(c) ==
    IF c.k = "text" THEN PyFloat(c.s) ELSE [ok |-> TRUE, cell |-> c]

\* one numeric column of fix_data_types: the converted texts are assigned
\* first, and astype(float) replaces them only when every element parses;
\* otherwise the exception is caught and the texts stay
FixedNumericColumn(cells) ==
    LET conv == [i \in 1..Len(cells) |-> convert_currency_format(cells[i])]
    IN IF \A i \in 1..Len(conv) : AsFloat(conv[i]).ok
       THEN [i \in 1..Len(conv) |-> AsFloat(conv[i]).cell]
       ELSE conv

\* pd.to_datetime of the column: all or nothing
FixedDateColumn(cells) ==
    IF \A i \in 1..Len(cells) : PyToDatetime(cells[i]).ok
    THEN [i \in 1..Len(cells) |-> PyToDatetime(cells[i]).cell]
    ELSE cells

fix_data_types(df) ==
    [cols |-> df.cols,
     rows |-> [i \in 1..Len(df.rows) |->
                 [c \in df.cols |->
                     IF c \in NumericColumns
                     THEN FixedNumericColumn(Column(df, c))[i]
                     ELSE IF c = "data_transacao"
                     THEN FixedDateColumn(Column(df, c))[i]
                     ELSE df.rows[i][c]]]]

\* ---------------------------------------------- create_derived_metrics
\* a column of dtype float64 / int64: no element is a text
IsNumericColumn(df, col) ==
    col \in df.cols /\
    \A i \in 1..Len(df.rows) : df.rows[i][col].k \in {"null", "real", "int", "inf"}

\* a column of dtype datetime64 (the .dt accessor works)
IsDatetimeColumn(df, col) ==
    col \in df.cols /\
    \A i \in 1..Len(df.rows) : df.rows[i][col].k \in {"null", "date"}

\* round(num / den, 2) for den > 0 as numpy rounds: halves to even
PyRoundedQuotient(num, den) ==
    LET a == IF num < 0 THEN 0 - num ELSE num
        q == Scale * (a \div den) + (Scale * (a % den)) \div den
        r == (Scale * (a % den)) % den
        h == IF 2 * r > den \/ (2 * r = den /\ q % 2 = 1) THEN q + 1 ELSE q
    IN IF num < 0 THEN 0 - h ELSE h

\* float division of two elements: x / 0 is an infinity, 0 / 0 and
\* anything with NaN is NaN
PyValorPorM2(v, a) ==
    IF IsNull(v) \/ IsNull(a) THEN Null
    ELSE IF a.v = 0 THEN (IF v.v = 0 THEN Null ELSE InfC(v.v < 0))
    ELSE IF a.v > 0 THEN RealC(PyRoundedQuotient(v.v, a.v))
    ELSE RealC(0 - PyRoundedQuotient(v.v, 0 - a.v))

classificar_valor(valor) ==
    IF IsNull(valor) THEN NaoInformado
    ELSE IF valor.v <= 200000 * Scale THEN Baixo
    ELSE IF valor.v <= 500000 * Scale THEN Medio
    ELSE IF valor.v <= 1000000 * Scale THEN Alto
    ELSE Premium

PyYear(d) == IF IsNull(d) THEN Null ELSE IntC(DateYear(d))
PyMonth(d) == IF IsNull(d) THEN Null ELSE IntC(DateMonth(d))
PyQuarter(d) == IF IsNull(d) THEN Null ELSE IntC(((DateMonth(d) - 1) \div 3) + 1)

PyIdade(d, ano) ==
    IF IsNull(d) \/ IsNull(ano) THEN Null ELSE IntC(DateYear(d) - ano.v)

\* each block of create_derived_metrics is a try/except: the column is
\* added when the expression evaluates and left out when it raises
WithValorPorM2(df) ==
    IF IsNumericColumn(df, "valor_avaliacao") /\ IsNumericColumn(df, "area_construida")
    THEN WithColumn(df, "valor_por_m2",
             [i \in 1..Len(df.rows) |->
                 PyValorPorM2(df.rows[i]["valor_avaliacao"],
                              df.rows[i]["area_construida"])])
    ELSE df

WithIdadeImovel(df) ==
    IF IsDatetimeColumn(df, "data_transacao") /\ IsNumericColumn(df, "ano_construcao")
    THEN WithColumn(df, "idade_imovel",
             [i \in 1..Len(df.rows) |->
                 PyIdade(df.rows[i]["data_transacao"], df.rows[i]["ano_construcao"])])
    ELSE df

WithFaixaValor(df) ==
    IF IsNumericColumn(df, "valor_avaliacao")
    THEN WithColumn(df, "faixa_valor",
             [i \in 1..Len(df.rows) |-> classificar_valor(df.rows[i]["valor_avaliacao"])])
    ELSE df

WithTemFinanciamento(df) ==
    IF IsNumericColumn(df, "valores_financiados_sfh")
    THEN WithColumn(df, "tem_financiamento",
             [i \in 1..Len(df.rows) |->
                 BoolC(SqlGt(df.rows[i]["valores_financiados_sfh"], 0))])
    ELSE df

WithTemporal(df) ==
    IF IsDatetimeColumn(df, "data_transacao")
    THEN WithColumn(
             WithColumn(
                 WithColumn(df, "mes_transacao",
                     [i \in 1..Len(df.rows) |-> PyMonth(df.rows[i]["data_transacao"])]),
                 "trimestre",
                 [i \in 1..Len(df.rows) |-> PyQuarter(df.rows[i]["data_transacao"])]),
             "ano_transacao",
             [i \in 1..Len(df.rows) |-> PyYear(df.rows[i]["data_transacao"])])
    ELSE df

create_derived_metrics(df) ==
    WithTemporal(WithTemFinanciamento(WithFaixaValor(WithIdadeImovel(WithValorPorM2(df)))))

\* transform_dataset: the five steps in order; the KeyError of
\* clean_column_names is not caught and leaves no frame
TransformedFrame(df) ==
    create_derived_metrics(
        fix_data_types(
            fix_text_encoding(
                handle_missing_values(clean_column_names(df).df))))

transform_dataset(df, year) ==
    /\ IF clean_column_names(df).ok
       THEN /\ transformed_datasets' =
                   [transformed_datasets EXCEPT ![year] = TransformedFrame(df)]
            /\ result' = [op |-> "transform_dataset", year |-> year,
                          ok |-> TRUE, value |-> Len(df.rows)]
       ELSE /\ transformed_datasets' = transformed_datasets
            /\ result' = [op |-> "transform_dataset", year |-> year,
                          ok |-> FALSE, value |-> 0]
    /\ UNCHANGED <<itbi_raw, itbi_transformed, load_metadata, itbi_metrics,
                   datasets>>

\* ---------------------------------------------------------------- inputs
\* the text of a non-negative amount v (hundredths) in Brazilian format:
\* '.' between groups of three digits, ',' before the two decimals
Pad2(n) == <<DigitChar(n \div 10), DigitChar(n % 10)>>
Pad3(n) == <<DigitChar(n \div 100)>> \o Pad2(n % 100)

RECURSIVE Grouped(_)
Grouped(n) ==
    IF n < 1000 THEN NatText(n)
    ELSE Grouped(n \div 1000) \o <<".">> \o Pad3(n % 1000)

BrazilianText(v) == Grouped(v \div Scale) \o <<",">> \o Pad2(v % Scale)

\* the same amount written without thousands separators
PlainCommaText(v) == NatText(v \div Scale) \o <<",">> \o Pad2(v % Scale)

InputColumns == RawColumns

InputRow(valor, bairro, data, complemento, terreno, area, ano, fracao, sfh, year) ==
    [c \in InputColumns |->
        CASE c = "valor_avaliacao" -> valor
          [] c = "bairro" -> bairro
          [] c = "data_transacao" -> data
          [] c = "complemento" -> complemento
          [] c = "area_terreno" -> terreno
          [] c = "area_construida" -> area
          [] c = "ano_construcao" -> ano
          [] c = "fracao_ideal" -> fracao
          [] c = "valores_financiados_sfh" -> sfh
          [] OTHER -> Txt(year)]

ExampleDate == Txt(<<"2", "0", "2", "3", "-", "0", "6", "-", "1", "5">>)
BoaViagem == Txt(<<"B", "o", "a", " ", "V">>)
Varzea == Txt(<<" ", "V", "a", "r", "z", "e", "a", " ">>)

\* value "150.000,00", built area "50,0", built in 2010, sold 2023-06-15,
\* nothing financed
ExampleRow(year) ==
    InputRow(Txt(BrazilianText(15000000)), BoaViagem, ExampleDate, Null,
             Txt(BrazilianText(100000)), Txt(<<"5", "0", ",", "0">>), IntC(2010),
             Txt(<<"1", ",", "0">>), Txt(BrazilianText(0)), year)

\* no assessed value, and most other fields missing too
MissingRow(year) ==
    InputRow(Null, Varzea, Null, Txt(<<"A", "p", "t", "o">>),
             Null, Null, Null, Null, Null, year)

RowPool(year) == {ExampleRow(year), MissingRow(year)}

\* sequences of 1..n elements of S
SeqsUpTo(S, n) == UNION {[1..k -> S] : k \in 1..n}

FrameOf(cols, rows) ==
    [cols |-> cols,
     rows |-> [i \in 1..Len(rows) |-> [c \in cols |-> rows[i][c]]]]

\* frames with every table column
FullFrames(year) ==
    {FrameOf(InputColumns, rows) : rows \in SeqsUpTo(RowPool(year), MaxRows)}

\* frames of a source without the bairro column
PartialFrames(year) ==
    {FrameOf(InputColumns \ {"bairro"}, rows) :
        rows \in SeqsUpTo({ExampleRow(year)}, MaxRows)}

\* a frame with a column the table does not have
ExtraFrames(year) ==
    {[cols |-> InputColumns \cup {"cidade"},
      rows |-> <<[c \in InputColumns \cup {"cidade"} |->
                    IF c = "cidade" THEN Txt(<<"R">>) ELSE ExampleRow(year)[c]]>>]}

Frames(year) == FullFrames(year) \cup PartialFrames(year) \cup ExtraFrames(year)

\* ----------------------------------------------------------- store spec
Init ==
    /\ itbi_raw = <<>>
    /\ itbi_transformed = <<>>
    /\ load_metadata = <<>>
    /\ datasets = [y \in Years |-> NoFrame]
    /\ transformed_datasets = [y \in Years |-> NoFrame]
    /\ result = NoResult
    /\ itbi_metrics = <<>>
    /\ run = NoRun

\* the history kept in load_metadata is capped at MaxLoads calls
LoadStep ==
    /\ Len(load_metadata) < MaxLoads
    /\ \E year \in Years : \E df \in Frames(year) : load_raw_dataset(df, year)
    /\ UNCHANGED run

TransformTypesStep ==
    /\ \E year \in Years : transform_data_types_in_db(year)
    /\ UNCHANGED run

DerivedMetricsStep ==
    /\ \E year \in Years : create_derived_metrics_in_db(year)
    /\ UNCHANGED run

Next == LoadStep \/ TransformTypesStep \/ DerivedMetricsStep

Spec == Init /\ [][Next]_vars

\* ------------------------------------------- one record, both variants
\* One extracted frame of a single record for 2023 goes through the
\* in-database variant (load, data types, derived metrics) and through the
\* in-process variant (transform_dataset).

\* amounts around the value thresholds, in hundredths
BrazilianAmounts ==
    {1, 1050, 10000050, 15000000, 20000000, 20000001, 20000050, 50000000,
     50000001, 100000000, 100000001, 150000000}

\* amounts written without thousands separators, one in each value band
PlainAmounts == {15000000, 30000000, 60000050, 150000000}

ValorCells ==
    {Txt(BrazilianText(v)) : v \in BrazilianAmounts} \cup
    {Txt(PlainCommaText(v)) : v \in PlainAmounts} \cup
    {Null, Txt(<<>>), Txt(NAN), Txt(<<"a", "b", "c">>),
     Txt(<<"-", "5", ",", "0", "0">>), Txt(BrazilianText(0))}

AreaCells ==
    {Txt(<<"5", "0", ",", "0">>), Txt(<<"7", "5", ",", "5">>),
     Txt(BrazilianText(125050)), Txt(<<"0", ",", "0">>),
     Txt(<<"-", "1", "0", ",", "0">>), Null}

DateCells ==
    {ExampleDate, Txt(<<"2", "0", "2", "3", "-", "1", "2", "-", "0", "1">>),
     Txt(<<"2", "0", "2", "3", "-", "0", "3", "-", "3", "1">>),
     Txt(<<"2", "0", "2", "4", "-", "0", "7", "-", "0", "1">>),
     Txt(<<"1", "5", "/", "0", "6">>), Txt(<<>>), Null}

ComplementoCells ==
    {Txt(<<" ", "C", "a", "s", "a", " ", "2", " ">>), Txt(<<" ", " ">>), Txt(<<>>)}

AnoCells ==
    {IntC(2010), IntC(1975), IntC(1980), IntC(1999), IntC(2005), IntC(2020), Null}

SfhCells == {Txt(BrazilianText(0)), Txt(BrazilianText(5000000)), Null}

\* the example record with its value and areas varied, or with its date,
\* construction year and financed amount varied
RecordRows ==
    {InputRow(valor, BoaViagem, ExampleDate, Null, area, area, IntC(2010),
              Txt(<<"1", ",", "0">>), Txt(BrazilianText(0)), Y2023) :
        valor \in ValorCells, area \in AreaCells}
    \cup
    {InputRow(Txt(BrazilianText(15000000)), Varzea, data, Txt(<<"A", "p", "t", "o">>),
              Txt(BrazilianText(100000)), Txt(<<"5", "0", ",", "0">>), ano,
              sfh, sfh, Y2023) :
        data \in DateCells, ano \in AnoCells, sfh \in SfhCells}
    \cup
    {InputRow(Txt(BrazilianText(15000000)), BoaViagem, ExampleDate, complemento,
              Txt(BrazilianText(100000)), Txt(<<"5", "0", ",", "0">>), IntC(2010),
              Txt(<<"1", ",", "0">>), Txt(BrazilianText(0)), Y2023) :
        complemento \in ComplementoCells}

\* the example record in a file with other columns: no financing column,
\* the financing column under the name 'sfh', no complemento, and the
\* redundant columns 'cidade' and 'uf', both or one of them
VariantColumns ==
    {InputColumns \ {"valores_financiados_sfh"},
     (InputColumns \ {"valores_financiados_sfh"}) \cup {"sfh"},
     InputColumns \ {"complemento"},
     InputColumns \cup {"cidade", "uf"},
     InputColumns \cup {"cidade"},
     InputColumns \cup {"uf"}}

VariantFrame(cols) ==
    [cols |-> cols,
     rows |-> <<[c \in cols |->
                   IF c \in InputColumns THEN ExampleRow(Y2023)[c]
                   ELSE IF c = "sfh" THEN Txt(PlainCommaText(5000000))
                   ELSE Txt(<<"R">>)]>>]

RecordFrames ==
    {FrameOf(InputColumns, <<r>>) : r \in RecordRows}
        \cup {VariantFrame(cols) : cols \in VariantColumns}

InitRecord ==
    /\ itbi_raw = <<>>
    /\ itbi_transformed = <<>>
    /\ load_metadata = <<>>
    /\ datasets \in {[y \in Years |-> IF y = Y2023 THEN df ELSE NoFrame] :
                        df \in RecordFrames}
    /\ transformed_datasets = [y \in Years |-> NoFrame]
    /\ result = NoResult
    /\ itbi_metrics = <<>>
    /\ run = NoRun

Extracted == {y \in Years : datasets[y] # NoFrame}

\* the body of the loop of load_all_raw_datasets
LoadExtractedStep ==
    /\ Len(load_metadata) < MaxLoads
    /\ \E year \in Extracted : load_raw_dataset(datasets[year], year)
    /\ UNCHANGED run

TypesExtractedStep ==
    /\ \E year \in Extracted : transform_data_types_in_db(year)
    /\ UNCHANGED run

DerivedExtractedStep ==
    /\ \E year \in Extracted : create_derived_metrics_in_db(year)
    /\ UNCHANGED run

\* the body of the loop of transform_all_datasets
TransformDatasetStep ==
    /\ \E year \in Extracted : transform_dataset(datasets[year], year)
    /\ UNCHANGED run

NextRecord ==
    \/ LoadExtractedStep
    \/ TypesExtractedStep
    \/ DerivedExtractedStep
    \/ TransformDatasetStep

SpecRecord == InitRecord /\ [][NextRecord]_vars

\* ------------------------------------------------------------ extraction
Y2025 == <<"2", "0", "2", "5">>

\* the years of datasets_urls, in order
datasets_urls == <<Y2023, Y2024, Y2025>>

MinExtractColumns == 20

MinRawColumns == 10

\* a dict in insertion order: a sequence of [year, ...] entries
DictSet(d, entry) ==
    IF \E i \in 1..Len(d) : d[i].year = entry.year
    THEN [i \in 1..Len(d) |-> IF d[i].year = entry.year THEN entry ELSE d[i]]
    ELSE Append(d, entry)

ConstantColumn(df, c) == [i \in 1..Len(df.rows) |-> c]

\* what read_csv gives for a URL: an exception, or the frame of the file
FetchError == [ok |-> FALSE, df |-> NoFrame]

\* extract_itbi_data, one year: the frame tagged with source_year,
\* extraction_date and source_url, kept when it is not empty and has at
\* least 20 columns
TaggedEtl(df, year) ==
    WithColumn(
        WithColumn(
            WithColumn(df, "source_year", ConstantColumn(df, Txt(year))),
            "extraction_date", ConstantColumn(df, Label("now"))),
        "source_url", ConstantColumn(df, Label("url")))

ExtractEtlAnyWidth(src, year) ==
    IF ~src.ok THEN FetchError
    ELSE IF TaggedEtl(src.df, year).rows = <<>> THEN FetchError
    ELSE [ok |-> TRUE, df |-> TaggedEtl(src.df, year)]

ExtractEtl(src, year) ==
    IF ~src.ok THEN FetchError
    ELSE IF TaggedEtl(src.df, year).rows = <<>> THEN FetchError
    ELSE IF Cardinality(TaggedEtl(src.df, year).cols) < MinExtractColumns
         THEN FetchError
    ELSE [ok |-> TRUE, df |-> TaggedEtl(src.df, year)]

\* extract_itbi_data_elt, one year: tagged with source_year,
\* extraction_timestamp and pipeline_type, kept when it is not empty
TaggedElt(df, year) ==
    WithColumn(
        WithColumn(
            WithColumn(df, "source_year", ConstantColumn(df, Txt(year))),
            "extraction_timestamp", ConstantColumn(df, Label("now"))),
        "pipeline_type", ConstantColumn(df, Label("ELT")))

ExtractElt(src, year) ==
    IF ~src.ok THEN FetchError
    ELSE IF TaggedElt(src.df, year).rows = <<>> THEN FetchError
    ELSE [ok |-> TRUE, df |-> TaggedElt(src.df, year)]

required_columns == {"valor_avaliacao", "bairro", "tipo_imovel", "data_transacao"}

\* validate_extracted_data: every dataset has the required columns and rows
validate_extracted_data(ds) ==
    \A i \in 1..Len(ds) :
        required_columns \subseteq ds[i].df.cols /\ ds[i].df.rows # <<>>

\* validate_raw_data: every dataset has rows and at least 10 columns
validate_raw_dataRowsOnly(ds) ==
    \A i \in 1..Len(ds) : ds[i].df.rows # <<>>

validate_raw_data(ds) ==
    \A i \in 1..Len(ds) :
        ds[i].df.rows # <<>> /\ Cardinality(ds[i].df.cols) >= MinRawColumns

\* --------------------------------------------------- consolidate_datasets
\* pd.concat(..., ignore_index=True, sort=False): the rows of the frames
\* one after the other over the union of the columns, NaN where a frame
\* lacks the column; concat of no frame raises ValueError
AllColumns(ds) == UNION {ds[i].df.cols : i \in 1..Len(ds)}

RECURSIVE ConcatRows(_, _)
ConcatRows(ds, cols) ==
    IF ds = <<>> THEN <<>>
    ELSE [i \in 1..Len(Head(ds).df.rows) |->
             [c \in cols |->
                 IF c \in Head(ds).df.cols THEN Head(ds).df.rows[i][c] ELSE Null]]
         \o ConcatRows(Tail(ds), cols)

consolidate_datasetsLastFirst(ds) ==
    IF ds = <<>> THEN [ok |-> FALSE, df |-> NoFrame]
    ELSE [ok |-> TRUE,
          df |-> [cols |-> AllColumns(ds),
                  rows |-> ConcatRows([i \in 1..Len(ds) |-> ds[Len(ds) + 1 - i]],
                                      AllColumns(ds))]]

consolidate_datasets(ds) ==
    IF ds = <<>> THEN [ok |-> FALSE, df |-> NoFrame]
    ELSE [ok |-> TRUE,
          df |-> [cols |-> AllColumns(ds), rows |-> ConcatRows(ds, AllColumns(ds))]]

\* ------------------------------------------------------ the entry scripts
\* run.pc is the place of main(): "extract" (the loop over datasets_urls,
\* run.attempted years done, run.fetched what read_csv gave for each of
\* them), "validate", then for run_etl "transform"
\* (loop over datasets_raw, run.i done), "consolidate", "save", "quality",
\* and for run_elt "load" (loop of load_all_raw_datasets), "verify",
\* "transform_db" (loop of transform_all_years_in_db over
\* run.available_years, run.step the next step of the year),
\* "final_views"; "done" is the return (exit status 0) and "failed" the
\* except branch (sys.exit(1)).
RunOnly ==
    UNCHANGED <<itbi_raw, itbi_transformed, load_metadata, itbi_metrics,
                datasets, transformed_datasets, result>>

Fail == [run EXCEPT !.pc = "failed", !.exit = "1"]

\* CSV files: the data columns of itbi_raw, a wider file with columns the
\* table does not have, the same without tipo_imovel, and a narrow file
Filler == Txt(<<"x">>)

CsvDataColumns ==
    (RawColumns \ {"source_year"}) \cup {"tipo_imovel", "logradouro", "numero", "cep"}

CsvWideColumns == CsvDataColumns \cup {"cidade", "uf", "latitude", "longitude"}

CsvWideNoTipo == (CsvWideColumns \ {"tipo_imovel"}) \cup {"padrao_acabamento"}

CsvNarrowColumns == {"valor_avaliacao", "bairro", "data_transacao"}

CsvFrame(cols, rows) ==
    [ok |-> TRUE,
     df |-> [cols |-> cols,
             rows |-> [i \in 1..Len(rows) |->
                         [c \in cols |->
                             IF c \in InputColumns THEN rows[i][c] ELSE Filler]]]]

\* a value without thousands separator, and a value that is no number
PlainRow ==
    InputRow(Txt(PlainCommaText(15000000)), BoaViagem, ExampleDate, Null,
             Txt(<<"1", "0", "0", ",", "0">>), Txt(<<"5", "0", ",", "0">>),
             IntC(2010), Txt(<<"1", ",", "0">>), Txt(BrazilianText(0)), Y2023)

UnparseableRow ==
    InputRow(Txt(<<"a", "b", "c">>), Varzea, ExampleDate, Txt(<<"A", "p", "t", "o">>),
             Txt(<<"1", "0", "0", ",", "0">>), Txt(<<"7", "5", ",", "5">>),
             IntC(1975), Txt(<<"1", ",", "0">>), Txt(PlainCommaText(5000000)), Y2023)

\* a value above a million
PremiumRow ==
    InputRow(Txt(BrazilianText(150000000)), Varzea, ExampleDate, Null,
             Txt(<<"1", "0", "0", ",", "0">>), Txt(BrazilianText(125050)),
             IntC(2020), Txt(<<"1", ",", "0">>), Txt(BrazilianText(0)), Y2023)

\* a value between the example's and the one above a million
MiddleRow ==
    InputRow(Txt(BrazilianText(50000000)), BoaViagem, ExampleDate, Null,
             Txt(<<"1", "0", "0", ",", "0">>), Txt(<<"5", "0", ",", "0">>),
             IntC(1999), Txt(<<"1", ",", "0">>), Txt(BrazilianText(0)), Y2023)

Sources ==
    {FetchError,
     CsvFrame(CsvDataColumns \ {"bairro"}, <<ExampleRow(Y2023)>>),
     CsvFrame(CsvDataColumns, <<PremiumRow, UnparseableRow, PlainRow>>),
     CsvFrame(CsvDataColumns,
              <<PremiumRow, UnparseableRow, MiddleRow, PlainRow>>),
     CsvFrame(CsvDataColumns, <<>>),
     CsvFrame(CsvDataColumns, <<ExampleRow(Y2023)>>),
     CsvFrame(CsvDataColumns, <<PlainRow, UnparseableRow>>),
     CsvFrame(CsvDataColumns, <<ExampleRow(Y2023), ExampleRow(Y2023)>>),
     CsvFrame(CsvNarrowColumns, <<ExampleRow(Y2023)>>),
     CsvFrame(CsvWideColumns, <<PlainRow>>),
     CsvFrame(CsvWideColumns, <<PlainRow, UnparseableRow>>),
     CsvFrame(CsvWideNoTipo, <<PlainRow>>)}

\* one turn of the extraction loop
ExtractYearStep ==
    /\ run.pc = "extract"
    /\ \E src \in Sources :
          LET year == datasets_urls[run.attempted + 1]
              out == IF run.pipeline = "ETL" THEN ExtractEtl(src, year)
                     ELSE ExtractElt(src, year)
          IN run' = [run EXCEPT
                 !.attempted = @ + 1,
                 !.fetched = Append(@, [year |-> year, src |-> src]),
                 !.datasets_raw =
                     IF out.ok THEN DictSet(@, [year |-> year, df |-> out.df])
                     ELSE @,
                 !.pc = IF run.attempted + 1 = Len(datasets_urls)
                        THEN "validate" ELSE "extract"]
    /\ RunOnly

\* if not validate_...(datasets_raw): raise ValueError
ValidateStep ==
    /\ run.pc = "validate"
    /\ run' =
         IF run.pipeline = "ETL"
         THEN IF validate_extracted_data(run.datasets_raw)
              THEN [run EXCEPT !.i = 0,
                               !.pc = IF run.datasets_raw = <<>>
                                      THEN "consolidate" ELSE "transform"]
              ELSE Fail
         ELSE IF validate_raw_data(run.datasets_raw)
              THEN [run EXCEPT !.i = 0,
                               !.pc = IF run.datasets_raw = <<>>
                                      THEN "verify" ELSE "load"]
              ELSE Fail
    /\ RunOnly

\* one turn of the loop of transform_all_datasets; the KeyError of
\* clean_column_names reaches main
TransformYearStep ==
    /\ run.pc = "transform"
    /\ LET entry == run.datasets_raw[run.i + 1]
       IN run' =
            IF clean_column_names(entry.df).ok
            THEN [run EXCEPT
                    !.i = @ + 1,
                    !.datasets_clean =
                        DictSet(@, [year |-> entry.year,
                                    df |-> TransformedFrame(entry.df)]),
                    !.pc = IF run.i + 1 = Len(run.datasets_raw)
                           THEN "consolidate" ELSE "transform"]
            ELSE Fail
    /\ RunOnly

ConsolidateStep ==
    /\ run.pc = "consolidate"
    /\ run' =
         IF consolidate_datasets(run.datasets_clean).ok
         THEN [run EXCEPT !.consolidated = consolidate_datasets(run.datasets_clean).df,
                          !.pc = "save"]
         ELSE Fail
    /\ RunOnly

\* save_consolidated_data writes the files
SaveStep ==
    /\ run.pc = "save"
    /\ run' = [run EXCEPT !.pc = "quality"]
    /\ RunOnly

\* generate_quality_report, the summary and the return
QualityStep ==
    /\ run.pc = "quality"
    /\ run' = [run EXCEPT !.pc = "done", !.exit = "0"]
    /\ RunOnly

\* one turn of the loop of load_all_raw_datasets: the exception of
\* load_raw_dataset is caught and the year counted as 0 records
LoadYearStep ==
    /\ run.pc = "load"
    /\ LET entry == run.datasets_raw[run.i + 1]
       IN /\ load_raw_dataset(entry.df, entry.year)
          /\ run' = [run EXCEPT
                 !.i = @ + 1,
                 !.load_results =
                     DictSet(@, [year |-> entry.year,
                                 records |-> IF result'.ok THEN result'.value ELSE 0]),
                 !.pc = IF run.i + 1 = Len(run.datasets_raw)
                        THEN "verify" ELSE "load"]

RECURSIVE SortedYears(_)
SortedYears(S) ==
    IF S = {} THEN <<>>
    ELSE LET least == CHOOSE y \in S :
                          \A z \in S : DigitsValue(y, 0) <= DigitsValue(z, 0)
         IN <<least>> \o SortedYears(S \ {least})

\* SELECT DISTINCT source_year FROM itbi_raw ORDER BY source_year
AvailableYears ==
    SortedYears({itbi_raw[i]["source_year"].s : i \in 1..Len(itbi_raw)})

\* verify_loaded_data and create_raw_data_views read the tables; then
\* transform_all_years_in_db reads the years to process
VerifyStep ==
    /\ run.pc = "verify"
    /\ run' = [run EXCEPT !.available_years = AvailableYears,
                          !.i = 0,
                          !.step = "data_types",
                          !.pc = IF AvailableYears = <<>>
                                 THEN "final_views" ELSE "transform_db"]
    /\ RunOnly

CurrentYearDescending ==
    run.available_years[Len(run.available_years) - run.i]

CurrentYear == run.available_years[run.i + 1]

TypesYearStep ==
    /\ run.pc = "transform_db" /\ run.step = "data_types"
    /\ transform_data_types_in_db(CurrentYear)
    /\ run' = [run EXCEPT !.step = "derived_metrics"]

DerivedYearStep ==
    /\ run.pc = "transform_db" /\ run.step = "derived_metrics"
    /\ create_derived_metrics_in_db(CurrentYear)
    /\ run' = [run EXCEPT !.step = "aggregated_metrics"]

\* the last step of the year; its exception is caught and the year's
\* result is the error
AggregatedYearStep ==
    /\ run.pc = "transform_db" /\ run.step = "aggregated_metrics"
    /\ calculate_aggregated_metrics(CurrentYear)
    /\ run' = [run EXCEPT
           !.transformation_results =
               DictSet(@, [year |-> CurrentYear, ok |-> result'.ok]),
           !.i = @ + 1,
           !.step = "data_types",
           !.pc = IF run.i + 1 = Len(run.available_years)
                  THEN "final_views" ELSE "transform_db"]

FinalViewsStepOverRaw ==
    /\ run.pc = "final_views"
    /\ run' = [run EXCEPT !.pc = "done", !.exit = "0"]
    /\ itbi_raw' = <<>>
    /\ UNCHANGED <<itbi_transformed, load_metadata, itbi_metrics,
                   datasets, transformed_datasets, result>>

\* create_final_views, the summary and the return
FinalViewsStep ==
    /\ run.pc = "final_views"
    /\ run' = [run EXCEPT !.pc = "done", !.exit = "0"]
    /\ RunOnly

\* the database a run finds: new, or holding the year 2023 of an earlier
\* load with its typed and derived rows
PriorFrame ==
    TaggedElt(CsvFrame(CsvDataColumns, <<ExampleRow(Y2023), MissingRow(Y2023)>>).df,
              Y2023)

PriorRaw == RawInsertRows(PriorFrame)

PriorTransformed ==
    MapRows(LAMBDA r : DeriveRow(TransformRow(r)), SelectSeq(PriorRaw, HasValor))

InitRun ==
    /\ \/ /\ itbi_raw = <<>>
          /\ itbi_transformed = <<>>
          /\ load_metadata = <<>>
       \/ /\ itbi_raw = PriorRaw
          /\ itbi_transformed = PriorTransformed
          /\ load_metadata = <<MetadataRow(Y2023, Len(PriorRaw), "success", "")>>
    /\ itbi_metrics = <<>>
    /\ datasets = [y \in Years |-> NoFrame]
    /\ transformed_datasets = [y \in Years |-> NoFrame]
    /\ result = NoResult
    /\ run \in {[NoRun EXCEPT !.pipeline = p, !.pc = "extract"] :
                   p \in {"ETL", "ELT"}}

NextRun ==
    \/ ExtractYearStep
    \/ ValidateStep
    \/ TransformYearStep
    \/ ConsolidateStep
    \/ SaveStep
    \/ QualityStep
    \/ LoadYearStep
    \/ VerifyStep
    \/ TypesYearStep
    \/ DerivedYearStep
    \/ AggregatedYearStep
    \/ FinalViewsStep

SpecRun == InitRun /\ [][NextRun]_vars

\* ================================================================ claims
Count(rows, P(_)) == Len(SelectSeq(rows, P))

SuccessfulLoads(year) ==
    {i \in 1..Len(load_metadata) :
        load_metadata[i].status = "success" /\ load_metadata[i].source_year = year}

\* the rows of the year are the rows of the frame, in order, each column
\* of the frame stored as its text and every other column NULL
YearRowsMatchFrame(table, df, year) ==
    LET rows == RowsOfYear(table, year)
    IN /\ Len(rows) = Len(df.rows)
       /\ \A i \in 1..Len(rows) : \A c \in RawColumns :
              rows[i][c] = IF c \notin df.cols THEN Null
                           ELSE IF c \in LoadMetaColumns THEN df.rows[i][c]
                           ELSE Txt(StrOf(df.rows[i][c]))

\* C1: after a successful load_raw_dataset(df, Y) the rows of itbi_raw of
\* year Y are exactly one row per row of df, whatever rows Y had before;
\* so loading df again over its own rows leaves the same rows of Y.
C1_RawReloadIdempotent ==
    [][(result'.op = "load_raw_dataset" /\ result'.ok) =>
          \A df \in Frames(result'.year) :
              load_raw_dataset(df, result'.year) =>
                  /\ YearRowsMatchFrame(itbi_raw', df, result'.year)
                  /\ YearRowsMatchFrame(itbi_raw, df, result'.year) =>
                         RowsOfYear(itbi_raw', result'.year)
                             = RowsOfYear(itbi_raw, result'.year)]_vars

\* a year loaded successfully for the second time, with rows in the table
C1_Witness ==
    /\ result.op = "load_raw_dataset" /\ result.ok
    /\ Cardinality(SuccessfulLoads(result.year)) >= 2
    /\ Len(RowsOfYear(itbi_raw, result.year)) = result.value
    /\ result.value > 0

SameKey(r1, r2) == \A c \in RawKeyColumns : r1[c] = r2[c]

\* C2: in every reachable state no two rows of itbi_raw share the same
\* (valor_avaliacao, bairro, data_transacao, source_year).
C2_NoDuplicateKey ==
    \A i, j \in 1..Len(itbi_raw) : i # j => ~SameKey(itbi_raw[i], itbi_raw[j])

\* the assessed value of a raw row is missing: NULL, '' or 'nan'
MissingValor(r) ==
    \/ IsNull(r["valor_avaliacao"])
    \/ r["valor_avaliacao"].s = <<>>
    \/ r["valor_avaliacao"].s = NAN

PresentValor(r) == ~MissingValor(r)

\* C3: transform_data_types_in_db(Y) leaves itbi_raw as it is (the rows
\* with a missing assessed value stay there), and afterwards the rows of
\* itbi_transformed of year Y are, in order, one row for each raw row of Y
\* whose assessed value is not missing and none for the others.
C3_MissingValorExcluded ==
    [][\A year \in Years :
          (result'.op = "transform_data_types_in_db" /\ result'.year = year
              /\ transform_data_types_in_db(year)) =>
              LET present == SelectSeq(RowsOfYear(itbi_raw, year), PresentValor)
                  made == RowsOfYear(itbi_transformed', year)
              IN /\ itbi_raw' = itbi_raw
                 /\ Len(made) = Len(present)
                 /\ \A i \in 1..Len(made) :
                        /\ made[i].bairro = Trim(present[i]["bairro"])
                        /\ made[i].source_year = Txt(year)]_vars

\* the year just transformed holds a raw row without assessed value and a
\* raw row with one, and a single transformed row
C3_Witness ==
    /\ result.op = "transform_data_types_in_db"
    /\ Count(RowsOfYear(itbi_raw, result.year), MissingValor) >= 1
    /\ Count(RowsOfYear(itbi_raw, result.year), PresentValor) = 1
    /\ Len(RowsOfYear(itbi_transformed, result.year)) = 1

\* C4: every row of itbi_transformed has a strictly positive
\* valor_avaliacao.
C4_TransformedValorPositive ==
    \A i \in 1..Len(itbi_transformed) :
        /\ ~IsNull(itbi_transformed[i].valor_avaliacao)
        /\ itbi_transformed[i].valor_avaliacao.v > 0

\* amounts (hundredths) whose Brazilian text is among the inputs
CheckedAmounts == BrazilianAmounts \cup {0, 100000, 125050, 5000000}

\* C5: transform_data_types_in_db stores, for each of the five numeric
\* columns, the number a Brazilian-format raw text denotes: every '.'
\* removed and ',' read as the decimal point ("200.000,50" gives 200000.50).
C5_BrazilianNumbersCoerced ==
    [][\A year \in Years :
          (result'.op = "transform_data_types_in_db" /\ result'.year = year) =>
              LET sel == SelectSeq(RowsOfYear(itbi_raw, year), PresentValor)
                  made == RowsOfYear(itbi_transformed', year)
              IN \A i \in DOMAIN made \cap DOMAIN sel :
                     \A col \in NumericColumns : \A v \in CheckedAmounts :
                         sel[i][col] = Txt(BrazilianText(v)) =>
                             made[i][col] = RealC(v)]_vars

\* the raw text "200.000,50" has just been stored as 200000.50, next to
\* an area "1.250,50" stored as 1250.50
C5_Witness ==
    /\ result.op = "transform_data_types_in_db"
    /\ Len(itbi_raw) = 1 /\ Len(itbi_transformed) = 1
    /\ itbi_raw[1]["valor_avaliacao"] = Txt(BrazilianText(20000050))
    /\ itbi_transformed[1].valor_avaliacao = RealC(20000050)
    /\ itbi_raw[1]["area_construida"] = Txt(BrazilianText(125050))
    /\ itbi_transformed[1].area_construida = RealC(125050)

\* the extracted record of 2023 and what each variant made of it
InputRecord == datasets[Y2023].rows[1]

InProcessDone == transformed_datasets[Y2023] # NoFrame

\* a column the in-process frame does not have
MissingColumn == [k |-> "missing", v |-> 0, s |-> <<>>]

InProcessCell(col) ==
    IF col \in transformed_datasets[Y2023].cols
    THEN transformed_datasets[Y2023].rows[1][col]
    ELSE MissingColumn

\* the in-database variant has typed the record and derived its metrics
InDatabaseDone ==
    /\ Len(itbi_transformed) = 1
    /\ ~IsNull(itbi_transformed[1].tem_financiamento)

\* C6: transform_dataset (fix_data_types with convert_currency_format)
\* turns every Brazilian-format text "A.BBB,CC" of the five numeric
\* columns into the number ABBB.CC ('100.000,50' into 100000.50).
C6_InProcessNumbersCoerced ==
    InProcessDone =>
        \A col \in NumericColumns : \A v \in CheckedAmounts :
            InputRecord[col] = Txt(BrazilianText(v)) =>
                InProcessCell(col) = RealC(v)

\* the band the thresholds give a positive value v (hundredths)
ThresholdBand(v) ==
    CASE v > 0 /\ v <= 200000 * Scale -> Baixo
      [] v > 200000 * Scale /\ v <= 500000 * Scale -> Medio
      [] v > 500000 * Scale /\ v <= 1000000 * Scale -> Alto
      [] v > 1000000 * Scale -> Premium

\* the record's assessed value is the text of the positive amount v
ValorIs(v) ==
    v > 0 /\ InputRecord["valor_avaliacao"] \in
                 {Txt(BrazilianText(v)), Txt(PlainCommaText(v))}

PositiveAmounts == (CheckedAmounts \cup PlainAmounts) \ {0}

C7_InDatabaseBand ==
    InDatabaseDone =>
        \A v \in PositiveAmounts :
            ValorIs(v) => itbi_transformed[1].faixa_valor = ThresholdBand(v)

C7_InProcessBand ==
    InProcessDone =>
        \A v \in PositiveAmounts :
            ValorIs(v) => InProcessCell("faixa_valor") = ThresholdBand(v)

\* C7: in both variants a record with a positive assessed value v gets
\* the one band the thresholds 200000, 500000 and 1000000 give v, the same
\* band in the two variants.
C7_BucketsBothVariants == C7_InDatabaseBand /\ C7_InProcessBand

\* the row of the worked example
ExampleInput ==
    /\ datasets[Y2023].cols = InputColumns
    /\ InputRecord["valor_avaliacao"] = Txt(BrazilianText(15000000))
    /\ InputRecord["area_construida"] = Txt(<<"5", "0", ",", "0">>)
    /\ InputRecord["ano_construcao"] = IntC(2010)
    /\ InputRecord["data_transacao"] = ExampleDate
    /\ InputRecord["valores_financiados_sfh"] = Txt(BrazilianText(0))

ExampleOutcome(t, bucket) ==
    /\ t.valor_avaliacao = RealC(150000 * Scale)
    /\ t.area_construida = RealC(50 * Scale)
    /\ t.valor_por_m2 = RealC(3000 * Scale)
    /\ t.idade_imovel = IntC(13)
    /\ t.faixa_valor = bucket
    /\ t.tem_financiamento = BoolC(FALSE)
    /\ t.mes_transacao = IntC(6)
    /\ t.trimestre = IntC(2)

Underived(t) ==
    /\ IsNull(t.valor_por_m2) /\ IsNull(t.idade_imovel)
    /\ IsNull(t.tem_financiamento) /\ IsNull(t.faixa_valor)
    /\ IsNull(t.categoria_area) /\ IsNull(t.periodo_construcao)

\* C9: after transform_data_types_in_db(Y) the rows of itbi_transformed of
\* year Y come from the current raw rows of Y only: one fresh row per raw
\* row with a value, none left from an earlier run (a row left over would
\* outnumber the raw rows or carry derived columns), the other years
\* untouched; and a second run right after the first leaves the same rows.
C9_TransformedRebuiltPerYear ==
    [][\A year \in Years :
          (result'.op = "transform_data_types_in_db" /\ result'.year = year) =>
              LET present == SelectSeq(RowsOfYear(itbi_raw', year), PresentValor)
                  made == RowsOfYear(itbi_transformed', year)
              IN /\ Len(made) = Len(present)
                 /\ result'.value = Len(made)
                 /\ \A i \in DOMAIN made :
                        /\ Underived(made[i])
                        /\ made[i].source_year = present[i]["source_year"]
                        /\ made[i].bairro = Trim(present[i]["bairro"])
                 /\ RowsNotOfYear(itbi_transformed', year)
                        = RowsNotOfYear(itbi_transformed, year)
                 /\ (result.op = "transform_data_types_in_db" /\ result.year = year)
                        => made = RowsOfYear(itbi_transformed, year)]_vars

\* a year reloaded and just transformed: as many fresh rows as raw rows
\* with a value, beside derived rows of the other year
C9_Witness ==
    /\ result.op = "transform_data_types_in_db"
    /\ result.value >= 1
    /\ Len(RowsOfYear(itbi_transformed, result.year)) = result.value
    /\ Count(RowsOfYear(itbi_raw, result.year), PresentValor) = result.value
    /\ \A i \in 1..Len(itbi_transformed) :
           itbi_transformed[i].source_year = Txt(result.year)
               <=> Underived(itbi_transformed[i])
    /\ Len(RowsNotOfYear(itbi_transformed, result.year)) >= 1

EquivalenceColumns ==
    {"valor_avaliacao", "area_construida", "valor_por_m2", "idade_imovel",
     "faixa_valor", "tem_financiamento", "mes_transacao", "trimestre"}

\* C10: for a raw record whose assessed value is present, transform_dataset
\* and transform_data_types_in_db followed by create_derived_metrics_in_db
\* give the same typed value and built area and the same value per area,
\* age, value bucket, financing flag, month and quarter.
C10_VariantsEquivalent ==
    (InDatabaseDone /\ InProcessDone /\ PresentValor(itbi_raw[1])) =>
        \A col \in EquivalenceColumns :
            InProcessCell(col) = itbi_transformed[1][col]

\* ------------------------------------------------------------ C11 .. C20
RECURSIVE RowsBefore(_, _)
RowsBefore(ds, k) ==
    IF k <= 1 THEN 0 ELSE RowsBefore(ds, k - 1) + Len(ds[k - 1].df.rows)

Consolidated == run.pipeline = "ETL" /\ run.pc \in {"save", "quality", "done"}

\* C11: the frame consolidate_datasets returns for the N >= 1 transformed
\* frames has as many rows as the N frames together and the union of their
\* columns; the j-th row of the k-th frame is its row number (rows of the
\* frames before k) + j, equal to the source row on the columns of frame k
\* and null on every other column.
C11_ConsolidationIsOrderedUnion ==
    Consolidated =>
        LET ds == run.datasets_clean
            out == run.consolidated
        IN /\ Len(ds) >= 1
           /\ Len(out.rows) = RowsBefore(ds, Len(ds) + 1)
           /\ out.cols = UNION {ds[k].df.cols : k \in 1..Len(ds)}
           /\ \A k \in 1..Len(ds) : \A j \in 1..Len(ds[k].df.rows) :
                  /\ DOMAIN out.rows[RowsBefore(ds, k) + j] = out.cols
                  /\ \A c \in out.cols :
                         out.rows[RowsBefore(ds, k) + j][c] =
                             IF c \in ds[k].df.cols THEN ds[k].df.rows[j][c]
                             ELSE Null

\* three frames of different length consolidated, one of them without a
\* column another one has
C11_Witness ==
    /\ Consolidated
    /\ Len(run.datasets_clean) = 3
    /\ Len(run.consolidated.rows) = 5
    /\ \E k \in 1..3 : \E c \in run.consolidated.cols :
           /\ c \notin run.datasets_clean[k].df.cols
           /\ run.consolidated.rows[RowsBefore(run.datasets_clean, k) + 1][c] = Null
    /\ Len(run.datasets_clean[1].df.rows) # Len(run.datasets_clean[3].df.rows)

\* the k-th year fetched passes the loop body: read_csv gave a frame, the
\* frame has rows and, in extract_itbi_data, at least 20 columns once the
\* three metadata columns are added
ExtractionSucceeded(k) ==
    LET src == run.fetched[k].src
    IN /\ src.ok
       /\ src.df.rows # <<>>
       /\ run.pipeline = "ETL" =>
              Cardinality(src.df.cols
                  \cup {"source_year", "extraction_date", "source_url"}) >= 20

SucceededYears ==
    LET kept == SelectSeq([k \in 1..Len(run.fetched) |-> k], ExtractionSucceeded)
    IN [i \in 1..Len(kept) |-> run.fetched[kept[i]].year]

\* C12: a failed year never ends the extraction loop: each turn attempts
\* the next of 2023, 2024, 2025 and goes on, whatever read_csv and the
\* basic validation give; the dictionary holds exactly the years that
\* succeeded, in that order, every record tagged with its source year.
C12_ExtractionFailureAbsorbed ==
    /\ [](/\ run.attempted = Len(run.fetched)
          /\ run.attempted <= 3
          /\ run.pc # "extract" => run.attempted = 3
          /\ \A k \in 1..Len(run.fetched) :
                 run.fetched[k].year = <<Y2023, Y2024, Y2025>>[k]
          /\ [i \in 1..Len(run.datasets_raw) |-> run.datasets_raw[i].year]
                 = SucceededYears
          /\ \A i \in 1..Len(run.datasets_raw) :
                 LET df == run.datasets_raw[i].df
                 IN /\ "source_year" \in df.cols
                    /\ df.rows # <<>>
                    /\ \A j \in 1..Len(df.rows) :
                           df.rows[j]["source_year"] = Txt(run.datasets_raw[i].year))
    /\ [][run.pc = "extract" =>
             /\ run'.attempted = run.attempted + 1
             /\ run'.pc \in {"extract", "validate"}
             /\ run'.exit = "running"]_vars

\* extract_itbi_data done: 2024 came with too few columns and is left out,
\* 2023 and 2025 are in the dictionary
C12_Witness ==
    /\ run.pipeline = "ETL"
    /\ run.pc = "validate"
    /\ run.fetched[1].src.ok /\ run.fetched[3].src.ok
    /\ run.fetched[2].src.ok /\ run.fetched[2].src.df.cols = CsvNarrowColumns
    /\ Len(run.datasets_raw) = 2
    /\ run.datasets_raw[1].year = Y2023
    /\ run.datasets_raw[2].year = Y2025

\* some extracted dataset is empty, lacks a required column (run_etl) or
\* has fewer than 10 columns (run_elt)
InvalidDatasets ==
    \E i \in 1..Len(run.datasets_raw) :
        LET df == run.datasets_raw[i].df
        IN \/ df.rows = <<>>
           \/ /\ run.pipeline = "ETL"
              /\ \E c \in {"valor_avaliacao", "bairro", "tipo_imovel", "data_transacao"} :
                     c \notin df.cols
           \/ /\ run.pipeline = "ELT"
              /\ Cardinality(df.cols) < 10

\* C13: once the extraction is over and the validation of the extracted
\* datasets fails, the run is in its except branch with exit status 1:
\* nothing was transformed, consolidated or loaded and no database
\* operation ran; and the except branch is the end of the run.
C13_ValidationFailureStops ==
    /\ []((InvalidDatasets /\ run.pc \notin {"extract", "validate"}) =>
             /\ run.pc = "failed"
             /\ run.exit = "1"
             /\ run.datasets_clean = <<>>
             /\ run.consolidated = NoFrame
             /\ run.load_results = <<>>
             /\ run.transformation_results = <<>>
             /\ result = NoResult)
    /\ [][run.pc = "validate" =>
             /\ UNCHANGED <<itbi_raw, itbi_transformed, load_metadata, itbi_metrics>>
             /\ InvalidDatasets => run'.pc = "failed"]_vars
    /\ [][run.pc # "failed"]_vars

\* run_elt stopped by a dataset of six columns beside two valid datasets
C13_Witness ==
    /\ run.pipeline = "ELT"
    /\ run.pc = "failed"
    /\ run.exit = "1"
    /\ InvalidDatasets
    /\ Len(run.datasets_raw) = 3
    /\ Cardinality(run.datasets_raw[2].df.cols) = 6
    /\ Cardinality(run.datasets_raw[1].df.cols) >= 10

\* C14: the call load_raw_dataset(df, Y) made by a turn of the load loop
\* appends exactly one row to load_metadata and changes no earlier row:
\* when it returns, the row says 'success' with records_loaded = the number
\* of rows of df; when the write fails, the row says 'error' with
\* records_loaded 0 and the message, the exception reaches the caller and
\* no row of itbi_raw has changed.
C14_OneMetadataRowPerLoad ==
    [][run.pc = "load" =>
          LET entry == run.datasets_raw[run.i + 1]
              row == load_metadata'[Len(load_metadata')]
          IN /\ Len(load_metadata') = Len(load_metadata) + 1
             /\ SubSeq(load_metadata', 1, Len(load_metadata)) = load_metadata
             /\ result'.op = "load_raw_dataset"
             /\ row.source_year = entry.year
             /\ \/ /\ result'.ok
                   /\ result'.value = Len(entry.df.rows)
                   /\ row.status = "success"
                   /\ row.records_loaded = Len(entry.df.rows)
                   /\ Len(RowsOfYear(itbi_raw', entry.year)) = Len(entry.df.rows)
                \/ /\ ~result'.ok
                   /\ row.status = "error"
                   /\ row.records_loaded = 0
                   /\ row.error_message # ""
                   /\ itbi_raw' = itbi_raw]_vars

\* a run whose loads wrote a success row for two records and an error row
C14_Witness ==
    /\ run.pc = "verify"
    /\ result.op = "load_raw_dataset"
    /\ \E i, j \in 1..Len(load_metadata) :
           /\ load_metadata[i].status = "success"
           /\ load_metadata[i].records_loaded = 2
           /\ load_metadata[j].status = "error"
           /\ load_metadata[j].records_loaded = 0
           /\ load_metadata[j].error_message = "UNIQUE constraint failed"

\* the load of some extracted year failed in this run
LoadFailed ==
    \E i \in 1..Len(run.load_results) :
        /\ run.load_results[i].records = 0
        /\ \E j \in 1..Len(load_metadata) :
               /\ load_metadata[j].source_year = run.load_results[i].year
               /\ load_metadata[j].status = "error"

\* C15: an ELT run in which the load of a year failed with a database
\* write error never reaches the transform phase and never ends with the
\* success summary and exit status 0.
C15_LoadFailureAbortsRun ==
    (run.pipeline = "ELT" /\ LoadFailed) =>
        /\ run.pc \notin {"transform_db", "final_views", "done"}
        /\ run.exit # "0"

\* a value the in-process coercion can read as a number
Parseable(c) == AsFloat(convert_currency_format(c)).ok

\* C16: when a row of a year's dataset holds an unparseable assessed
\* value, the frame transform_dataset gives for the year has the other
\* rows only, each with a numeric assessed value and its value-derived
\* metrics.
C16_CoercionFailureRowLevel ==
    \A k \in 1..Len(run.datasets_clean) :
        LET src == run.datasets_raw[k].df
            out == run.datasets_clean[k].df
            good == SelectSeq(src.rows, LAMBDA r : Parseable(r["valor_avaliacao"]))
        IN Len(good) < Len(src.rows) =>
               /\ Len(out.rows) = Len(good)
               /\ {"valor_por_m2", "faixa_valor"} \subseteq out.cols
               /\ \A j \in 1..Len(out.rows) :
                      /\ out.rows[j]["valor_avaliacao"].k = "real"
                      /\ out.rows[j]["valor_por_m2"].k = "real"

\* C17: a step changes itbi_raw only when it is a successful
\* load_raw_dataset, which leaves the rows of the other years as they were
\* and puts the rows of its frame in place of all rows of its year; no
\* step of the verification, of transform_all_years_in_db
\* (transform_data_types_in_db, create_derived_metrics_in_db,
\* calculate_aggregated_metrics) or of create_final_views changes a raw row.
C17_RawRowsOnlyReplacedByLoad ==
    [][/\ run.pc \in {"verify", "transform_db", "final_views"} =>
              itbi_raw' = itbi_raw
       /\ result'.op \in {"transform_data_types_in_db",
                          "create_derived_metrics_in_db",
                          "calculate_aggregated_metrics"} =>
              itbi_raw' = itbi_raw
       /\ itbi_raw' # itbi_raw =>
              /\ run.pc = "load"
              /\ result'.op = "load_raw_dataset"
              /\ result'.ok
              /\ result'.year = run.datasets_raw[run.i + 1].year
              /\ RowsNotOfYear(itbi_raw', result'.year)
                     = RowsNotOfYear(itbi_raw, result'.year)
              /\ RowsOfYear(itbi_raw', result'.year)
                     = RawInsertRows(run.datasets_raw[run.i + 1].df)]_vars

\* an ELT run over a database that held 2023: the year was reloaded with
\* other rows, a second year loaded, both years transformed with their
\* metrics written, the final views created
C17_Witness ==
    /\ run.pipeline = "ELT"
    /\ run.pc = "done"
    /\ Len(load_metadata) = 3
    /\ \A i \in 1..3 : load_metadata[i].status = "success"
    /\ run.datasets_raw[1].year = Y2023
    /\ RowsOfYear(itbi_raw, Y2023) = RawInsertRows(run.datasets_raw[1].df)
    /\ RowsOfYear(itbi_raw, Y2023) # PriorRaw
    /\ Len(run.transformation_results) = 2
    /\ \A i \in 1..2 : run.transformation_results[i].ok
    /\ itbi_metrics # <<>>
    /\ Len(itbi_transformed) = Len(itbi_raw)

\* q is num / den to the nearest hundredth (num, den, q in hundredths)
NearestHundredth(q, num, den) ==
    LET a == IF num < 0 THEN 0 - num ELSE num
        b == IF q < 0 THEN 0 - q ELSE q
        whole == Scale * (a \div den) + (Scale * (a % den)) \div den
        r == (Scale * (a % den)) % den
    IN /\ (num < 0 /\ q # 0) => q < 0
       /\ \/ b = whole /\ 2 * r <= den
          \/ b = whole + 1 /\ 2 * r >= den

ValuePerArea(valor, area, vpm) ==
    IF area.k = "real" /\ area.v > 0
    THEN vpm.k = "real" /\ NearestHundredth(vpm.v, valor.v, area.v)
    ELSE vpm.k \in {"null", "missing"}

\* C18: for a record whose assessed value is a number, both variants give
\* valor_por_m2 = valor_avaliacao / area_construida rounded to 2 decimals
\* when the built area is above 0, and leave it null when the built area
\* is null, zero or negative.
C18_ValuePerAreaBothVariants ==
    /\ (InDatabaseDone /\ itbi_transformed[1].valor_avaliacao.k = "real") =>
           ValuePerArea(itbi_transformed[1].valor_avaliacao,
                        itbi_transformed[1].area_construida,
                        itbi_transformed[1].valor_por_m2)
    /\ (InProcessDone /\ InProcessCell("valor_avaliacao").k = "real"
                      /\ InProcessCell("area_construida").k \in {"real", "null"}) =>
           ValuePerArea(InProcessCell("valor_avaliacao"),
                        InProcessCell("area_construida"),
                        InProcessCell("valor_por_m2"))

\* the in-database half of C18 alone
C18_InDatabaseValuePerArea ==
    (InDatabaseDone /\ itbi_transformed[1].valor_avaliacao.k = "real") =>
        ValuePerArea(itbi_transformed[1].valor_avaliacao,
                     itbi_transformed[1].area_construida,
                     itbi_transformed[1].valor_por_m2)

\* the raw text of a missing value: '' or 'nan'
MissingText(c) == ~IsNull(c) /\ c.s \in {<<>>, NAN}

\* C19: a numeric field of the raw record that is '' or 'nan' is NULL in
\* the record transform_data_types_in_db writes to itbi_transformed.
C19_MissingNumberIsNull ==
    (Len(itbi_transformed) = 1 /\ Len(itbi_raw) = 1) =>
        \A col \in {"area_terreno", "area_construida", "fracao_ideal",
                    "valores_financiados_sfh", "ano_construcao"} :
            MissingText(itbi_raw[1][col]) => IsNull(itbi_transformed[1][col])

\* the area bucket of the thresholds 50, 100, 200 (a in hundredths)
AreaBucket(a) ==
    IF a <= 50 * Scale THEN Label("Pequeno (ate 50m2)")
    ELSE IF a <= 100 * Scale THEN Label("Medio (50-100m2)")
    ELSE IF a <= 200 * Scale THEN Label("Grande (100-200m2)")
    ELSE Label("Extra Grande (acima 200m2)")

\* the half of C20 about a known built area
C20_KnownAreaBucket ==
    (InDatabaseDone /\ Len(itbi_raw) = 1
                    /\ ~IsNull(itbi_raw[1]["area_construida"])
                    /\ ~MissingText(itbi_raw[1]["area_construida"])) =>
        /\ itbi_transformed[1].area_construida.k = "real"
        /\ itbi_transformed[1].categoria_area
               = AreaBucket(itbi_transformed[1].area_construida.v)

\* C20: after create_derived_metrics_in_db a record whose built area is
\* known has the bucket of its area (<= 50, <= 100, <= 200, above), and a
\* record whose source built area was missing has a null bucket.
C20_AreaBucket ==
    (InDatabaseDone /\ Len(itbi_raw) = 1) =>
        IF IsNull(itbi_raw[1]["area_construida"])
               \/ MissingText(itbi_raw[1]["area_construida"])
        THEN IsNull(itbi_transformed[1].categoria_area)
        ELSE /\ itbi_transformed[1].area_construida.k = "real"
             /\ itbi_transformed[1].categoria_area
                    = AreaBucket(itbi_transformed[1].area_construida.v)

\* ------------------------------------------------------------ C21 .. C30
\* the construction-period bucket of the five ranges
PeriodBucket(y) ==
    IF y < 1980 THEN Label("Antes de 1980")
    ELSE IF y <= 1999 THEN Label("1980-1999")
    ELSE IF y <= 2009 THEN Label("2000-2009")
    ELSE IF y <= 2019 THEN Label("2010-2019")
    ELSE Label("2020 ou posterior")

\* the half of C21 about a known construction year
C21_KnownYearBucket ==
    (InDatabaseDone /\ Len(itbi_raw) = 1
                    /\ ~MissingText(itbi_raw[1]["ano_construcao"])) =>
        /\ itbi_transformed[1].ano_construcao.k = "int"
        /\ itbi_transformed[1].periodo_construcao
               = PeriodBucket(itbi_transformed[1].ano_construcao.v)

\* C21: after create_derived_metrics_in_db a record whose construction
\* year is known has the bucket of the range the year falls in (before
\* 1980, 1980-1999, 2000-2009, 2010-2019, 2020 or later), and a record
\* whose source construction year was missing has a null bucket and a null
\* property age.
C21_ConstructionPeriodBucket ==
    (InDatabaseDone /\ Len(itbi_raw) = 1) =>
        IF MissingText(itbi_raw[1]["ano_construcao"])
        THEN /\ IsNull(itbi_transformed[1].periodo_construcao)
             /\ IsNull(itbi_transformed[1].idade_imovel)
        ELSE /\ itbi_transformed[1].ano_construcao.k = "int"
             /\ itbi_transformed[1].periodo_construcao
                    = PeriodBucket(itbi_transformed[1].ano_construcao.v)

\* the raw record was typed by transform_data_types_in_db
TypedRecord ==
    /\ result.op = "transform_data_types_in_db"
    /\ Len(itbi_raw) = 1
    /\ PresentValor(itbi_raw[1])

RawDate == itbi_raw[1]["data_transacao"].s

\* the half of C22 about a valid date
C22_ValidDateComponents ==
    (TypedRecord /\ IsIsoDate(RawDate)) =>
        /\ Len(itbi_transformed) = 1
        /\ itbi_transformed[1].data_transacao = DateC(IsoValue(RawDate))
        /\ itbi_transformed[1].ano_transacao
               = IntC(DigitsValue(SubSeq(RawDate, 1, 4), 0))
        /\ itbi_transformed[1].mes_transacao
               = IntC(DigitsValue(SubSeq(RawDate, 6, 7), 0))
        /\ itbi_transformed[1].trimestre
               = IntC(((DigitsValue(SubSeq(RawDate, 6, 7), 0) - 1) \div 3) + 1)

\* C22: transform_data_types_in_db inserts the record whatever its date;
\* for a valid date the year and the month are the date's and the quarter
\* is ((month - 1) div 3) + 1; for an empty or invalid date the date, the
\* year, the month and the quarter are all null.
C22_TemporalComponents ==
    TypedRecord =>
        /\ Len(itbi_transformed) = 1
        /\ IF IsIsoDate(RawDate)
           THEN /\ itbi_transformed[1].data_transacao = DateC(IsoValue(RawDate))
                /\ itbi_transformed[1].ano_transacao
                       = IntC(DigitsValue(SubSeq(RawDate, 1, 4), 0))
                /\ itbi_transformed[1].mes_transacao
                       = IntC(DigitsValue(SubSeq(RawDate, 6, 7), 0))
                /\ itbi_transformed[1].trimestre
                       = IntC(((DigitsValue(SubSeq(RawDate, 6, 7), 0) - 1) \div 3) + 1)
           ELSE /\ IsNull(itbi_transformed[1].data_transacao)
                /\ IsNull(itbi_transformed[1].ano_transacao)
                /\ IsNull(itbi_transformed[1].mes_transacao)
                /\ IsNull(itbi_transformed[1].trimestre)

\* a complemento that is missing: NULL, empty or blank text, or 'nan'
MissingComplemento(c) == IsNull(c) \/ Trim(c).s \in {<<>>, NAN}

\* C23: in the record transform_data_types_in_db writes, a missing
\* complemento (NULL, empty, whitespace only, or the text 'nan') is
\* 'Sem complemento' and any other complemento is its trimmed text.
C23_ComplementoPlaceholder ==
    TypedRecord =>
        /\ Len(itbi_transformed) = 1
        /\ itbi_transformed[1].complemento =
               IF MissingComplemento(itbi_raw[1]["complemento"])
               THEN SemComplemento
               ELSE Trim(itbi_raw[1]["complemento"])

\* the cases of C23 in which the stored complemento is NULL or a text
\* that is neither blank nor 'nan'
C23_NullOrPresentComplemento ==
    (TypedRecord /\ (IsNull(itbi_raw[1]["complemento"])
                     \/ ~MissingComplemento(itbi_raw[1]["complemento"]))) =>
        itbi_transformed[1].complemento =
            IF IsNull(itbi_raw[1]["complemento"]) THEN SemComplemento
            ELSE Trim(itbi_raw[1]["complemento"])

\* the flag of a financed amount: true exactly when it is a number > 0
FinancingFlag(amount) == BoolC(amount.k = "real" /\ amount.v > 0)

\* the in-database half of C24
C24_InDatabaseFlag ==
    InDatabaseDone =>
        itbi_transformed[1].tem_financiamento
            = FinancingFlag(itbi_transformed[1].valores_financiados_sfh)

\* C24: in both variants the financing flag of a record is true when its
\* financed amount is above 0 and false otherwise, also when the amount is
\* null and when the dataset has no financing column.
C24_FinancingFlagDefined ==
    /\ InDatabaseDone =>
           itbi_transformed[1].tem_financiamento
               = FinancingFlag(itbi_transformed[1].valores_financiados_sfh)
    /\ (InProcessDone /\ InProcessCell("valores_financiados_sfh").k # "text") =>
           InProcessCell("tem_financiamento")
               = FinancingFlag(InProcessCell("valores_financiados_sfh"))

\* C25: transform_dataset gets through clean_column_names for every
\* column set of its frame: the call succeeds, the transformed frame has
\* neither 'cidade' nor 'uf', it has every other column of the input with
\* 'sfh' under the name 'valores_financiados_sfh', and the caller's frame
\* is as it was.
C25_CleanColumnNames ==
    [][result'.op = "transform_dataset" =>
          LET in == datasets[result'.year]
              out == transformed_datasets'[result'.year]
          IN /\ datasets' = datasets
             /\ result'.ok
             /\ out.cols \cap {"cidade", "uf"} = {}
             /\ (in.cols \ {"cidade", "uf", "sfh"}) \subseteq out.cols
             /\ "sfh" \in in.cols =>
                    /\ "sfh" \notin out.cols
                    /\ "valores_financiados_sfh" \in out.cols]_vars

\* the cases of C25 other than a frame with only one of 'cidade' and 'uf'
C25_BothOrNoneRedundant ==
    [][(/\ result'.op = "transform_dataset"
        /\ ("cidade" \in datasets[result'.year].cols
               <=> "uf" \in datasets[result'.year].cols)) =>
          LET in == datasets[result'.year]
              out == transformed_datasets'[result'.year]
          IN /\ datasets' = datasets
             /\ result'.ok
             /\ out.cols \cap {"cidade", "uf"} = {}
             /\ (in.cols \ {"cidade", "uf", "sfh"}) \subseteq out.cols
             /\ "sfh" \in in.cols =>
                    /\ "sfh" \notin out.cols
                    /\ "valores_financiados_sfh" \in out.cols]_vars

\* C26: when the load_raw_dataset(df, Y) of a turn of the load loop raises
\* (two records of df with the same key, or a column the table does not
\* have), the rows of itbi_raw of year Y after the call are the rows of
\* before, and so are all others.
C26_FailedLoadChangesNothing ==
    [][(run.pc = "load" /\ ~result'.ok) =>
          LET year == run.datasets_raw[run.i + 1].year
          IN /\ result'.op = "load_raw_dataset"
             /\ RowsOfYear(itbi_raw', year) = RowsOfYear(itbi_raw, year)
             /\ itbi_raw' = itbi_raw]_vars

\* the reload of 2023 over its stored rows has just failed on the UNIQUE
\* constraint and the stored rows of 2023 are still there
C26_Witness ==
    /\ run.pipeline = "ELT"
    /\ result.op = "load_raw_dataset"
    /\ ~result.ok
    /\ result.year = Y2023
    /\ load_metadata[Len(load_metadata)].error_message = "UNIQUE constraint failed"
    /\ RowsOfYear(itbi_raw, Y2023) = PriorRaw
    /\ PriorRaw # <<>>

MetricsNotOfYear(table, year) ==
    SelectSeq(table, LAMBDA m : m.source_year # Txt(year))

\* C27: a load_raw_dataset, transform_data_types_in_db,
\* create_derived_metrics_in_db or calculate_aggregated_metrics of year Y,
\* whether it succeeds or fails, leaves the rows of the other years of
\* itbi_raw, itbi_transformed and itbi_metrics as they were.
C27_OtherYearsUntouched ==
    [][result'.op \in {"load_raw_dataset", "transform_data_types_in_db",
                       "create_derived_metrics_in_db",
                       "calculate_aggregated_metrics"} =>
          /\ RowsNotOfYear(itbi_raw', result'.year)
                 = RowsNotOfYear(itbi_raw, result'.year)
          /\ RowsNotOfYear(itbi_transformed', result'.year)
                 = RowsNotOfYear(itbi_transformed, result'.year)
          /\ MetricsNotOfYear(itbi_metrics', result'.year)
                 = MetricsNotOfYear(itbi_metrics, result'.year)]_vars

\* the metrics of 2025 were just written beside those of 2023, after 2024
\* failed in the same step; the three years have raw and transformed rows
C27_Witness ==
    /\ result.op = "calculate_aggregated_metrics"
    /\ result.ok
    /\ result.year = Y2025
    /\ Len(run.transformation_results) = 3
    /\ run.transformation_results[1].ok
    /\ ~run.transformation_results[2].ok
    /\ \A y \in {Y2023, Y2024, Y2025} :
           /\ RowsOfYear(itbi_raw, y) # <<>>
           /\ RowsOfYear(itbi_transformed, y) # <<>>
    /\ MetricsNotOfYear(itbi_metrics, Y2025) # <<>>
    /\ MetricsNotOfYear(itbi_metrics, Y2023) # <<>>

ResultYears == [k \in 1..Len(run.transformation_results) |->
                   run.transformation_results[k].year]

YearNumber(y) == DigitsValue(y, 0)

\* C28: transform_all_years_in_db takes the distinct years of itbi_raw in
\* ascending order, each once; within a year the data types step is
\* followed by the derived metrics step and that by the aggregated metrics
\* step; a year whose step fails is recorded as an error and the next year
\* is still processed; the returned dictionary has one entry per year of
\* itbi_raw.
C28_YearsInOrderStepsInOrder ==
    [][/\ (run.pc = "transform_db" /\ run' # run) =>
          /\ result'.op \in {"transform_data_types_in_db",
                             "create_derived_metrics_in_db",
                             "calculate_aggregated_metrics"}
          /\ result'.op = "transform_data_types_in_db" =>
              /\ \A k \in 1..Len(ResultYears) :
                     YearNumber(ResultYears[k]) < YearNumber(result'.year)
              /\ \A i \in 1..Len(itbi_raw) :
                     YearNumber(itbi_raw[i]["source_year"].s)
                         < YearNumber(result'.year)
                     => \E k \in 1..Len(ResultYears) :
                            ResultYears[k] = itbi_raw[i]["source_year"].s
              /\ \E i \in 1..Len(itbi_raw) :
                     itbi_raw[i]["source_year"].s = result'.year
              /\ run'.transformation_results = run.transformation_results
          /\ result'.op = "create_derived_metrics_in_db" =>
              /\ result.op = "transform_data_types_in_db"
              /\ result.ok
              /\ result.year = result'.year
              /\ run'.transformation_results = run.transformation_results
          /\ result'.op = "calculate_aggregated_metrics" =>
              /\ result.op = "create_derived_metrics_in_db"
              /\ result.ok
              /\ result.year = result'.year
              /\ run'.transformation_results =
                     Append(run.transformation_results,
                            [year |-> result'.year, ok |-> result'.ok])
       /\ (run.pipeline = "ELT" /\ run.pc # "done" /\ run'.pc = "done") =>
              /\ ResultYears = AvailableYears
              /\ run'.transformation_results = run.transformation_results]_vars

\* the run ended after the second of three years failed in its aggregated
\* metrics and the third year was processed in full
C28_Witness ==
    /\ run.pipeline = "ELT"
    /\ run.pc = "done"
    /\ ResultYears = <<Y2023, Y2024, Y2025>>
    /\ run.transformation_results[1].ok
    /\ ~run.transformation_results[2].ok
    /\ run.transformation_results[3].ok
    /\ result.op = "calculate_aggregated_metrics"
    /\ result.year = Y2025
    /\ RowsOfYear(itbi_transformed, Y2025) # <<>>

\* the valor_avaliacao cells of the transformed rows of a year
ValoresOfYear(year) ==
    LET rows == RowsOfYear(itbi_transformed, year)
    IN [i \in 1..Len(rows) |-> rows[i]["valor_avaliacao"]]

\* an ordering of the positions of a sequence by ascending value
AscendingOrder(values) ==
    LET n == Len(values)
    IN CHOOSE p \in [1..n -> 1..n] :
           /\ \A i, j \in 1..n : i # j => p[i] # p[j]
           /\ \A i, j \in 1..n : i < j => values[p[i]].v <= values[p[j]].v

\* the fraction m is the median of the values: the middle one of an odd
\* number of them, the mean of the two middle ones of an even number
IsMedian(m, values) ==
    LET n == Len(values)
        p == AscendingOrder(values)
    IN IF n % 2 = 1
       THEN m.num = values[p[(n + 1) \div 2]].v * m.den
       ELSE 2 * m.num =
                (values[p[n \div 2]].v + values[p[n \div 2 + 1]].v) * m.den

StoredMetric(name, year) ==
    SelectSeq(itbi_metrics,
              LAMBDA m : m.metric_name = name /\ m.source_year = Txt(year))

\* C29: for every year with at least one transformed row, the
\* 'valor_mediano' metric that calculate_aggregated_metrics stored is the
\* median of the year's valor_avaliacao values.
C29_StoredMedianIsMedian ==
    \A year \in {Y2023, Y2024, Y2025} :
        \A k \in 1..Len(StoredMetric(<<"valor_mediano">>, year)) :
            Len(ValoresOfYear(year)) >= 1 =>
                /\ \A i \in 1..Len(ValoresOfYear(year)) :
                       ValoresOfYear(year)[i].k = "real"
                /\ IsMedian(StoredMetric(<<"valor_mediano">>, year)[k].metric_value,
                            ValoresOfYear(year))

MedianDiffersFromMean(year) ==
    /\ Len(StoredMetric(<<"valor_mediano">>, year)) = 1
    /\ Len(StoredMetric(<<"valor_medio">>, year)) = 1
    /\ LET mediano == StoredMetric(<<"valor_mediano">>, year)[1].metric_value
           medio == StoredMetric(<<"valor_medio">>, year)[1].metric_value
       IN mediano.num * medio.den # medio.num * mediano.den

\* the metrics of a year of three values and of a year of four values are
\* stored, the median differing from the mean in both, and the two middle
\* values of the four differing from each other
C29_Witness ==
    /\ result.op = "calculate_aggregated_metrics"
    /\ result.ok
    /\ \E y3, y4 \in {Y2023, Y2024, Y2025} :
           /\ Len(ValoresOfYear(y3)) = 3
           /\ Len(ValoresOfYear(y4)) = 4
           /\ MedianDiffersFromMean(y3)
           /\ MedianDiffersFromMean(y4)
           /\ LET p == AscendingOrder(ValoresOfYear(y4))
              IN ValoresOfYear(y4)[p[2]].v # ValoresOfYear(y4)[p[3]].v

\* every year was attempted and none was extracted
EmptyExtraction ==
    /\ run.pipeline \in {"ETL", "ELT"}
    /\ run.attempted = Len(datasets_urls)
    /\ run.datasets_raw = <<>>

\* C30: a run whose extraction fails for every year never ends as a
\* success: it performs no load or transform step on stored data and it
\* exits with a non-zero status.
C30_EmptyExtractionNeverSucceeds ==
    EmptyExtraction =>
        /\ run.exit # "0"
        /\ result.op \notin {"load_raw_dataset", "transform_data_types_in_db",
                             "create_derived_metrics_in_db",
                             "calculate_aggregated_metrics"}

\* the part of C30 that holds: run_etl.main with an empty extraction fails
\* in consolidate_datasets and exits with status 1
C30_EtlEmptyExtractionFails ==
    (EmptyExtraction /\ run.pipeline = "ETL") =>
        /\ run.exit # "0"
        /\ run.pc \in {"validate", "consolidate", "failed"}
        /\ result = NoResult
====
